---- MODULE Spec2Model ----
(***************************************************************************)
(* A model of ECCOpQueue (barretenberg, bb::ECCOpQueue): the queue of      *)
(* elliptic-curve operations with its raw operation log, its native         *)
(* accumulator, its four-column ultra_ops transcript, the two size          *)
(* counters and the passed-through commitments.  Several queue objects      *)
(* live side by side so that prepend_previous_queue and swap, which take    *)
(* two queues, can be exercised, the aliased calls included.                *)
(***************************************************************************)
EXTENDS Integers, Sequences, FiniteSets, TLC

(***************************************************************************)
(* Bounds of the exploration.                                               *)
(***************************************************************************)
\* Largest number of logged operations, raw records and two-row wire
\* operations counted alike, that all queues together hold.
MaxOps == 3

\* The queue objects of the exploration.
Queues == {"A", "B"}

(***************************************************************************)
(* The curve group and its scalar field, scaled down: a cyclic group of    *)
(* prime order FrModulus whose elements are 0 .. FrModulus-1, 0 being the  *)
(* point at infinity.  A scalar (Fr) is held by its Montgomery data        *)
(* x * MontgomeryR mod FrModulus, as the field library holds it.           *)
(***************************************************************************)
FrModulus == 7
MontgomeryR == 2
MontgomeryRInv == CHOOSE x \in 1 .. (FrModulus - 1) : (x * MontgomeryR) % FrModulus = 1
\* The endomorphism constant: a cube root of unity other than 1.
EndoLambda == CHOOSE x \in 2 .. (FrModulus - 1) : (x * x * x) % FrModulus = 1
\* The largest half-width scalar: the least h with (h + 1)^2 >= FrModulus.
EndoHalfMax ==
    CHOOSE h \in 0 .. FrModulus :
        /\ (h + 1) * (h + 1) >= FrModulus
        /\ \A g \in 0 .. FrModulus : (g + 1) * (g + 1) >= FrModulus => h <= g

Point == 0 .. (FrModulus - 1)
Fr == 0 .. (FrModulus - 1)

point_at_infinity == 0

\* Curve::AffineElement operator+
PointAdd(p, q) == (p + q) % FrModulus

\* Fr::from_montgomery_form: the data of x with the factor R taken out.
from_montgomery_form(x) == (x * MontgomeryRInv) % FrModulus

\* Fr::to_montgomery_form: the data of x with the factor R put in.
to_montgomery_form(x) == (x * MontgomeryR) % FrModulus

\* Fr(n) for a small literal n, as in `Fr z1 = 0` and `.z1 = 0`.
FrLiteral(n) == to_montgomery_form(n % FrModulus)

\* Fr::one() and unary minus on Fr.
FrOne == FrLiteral(1)
FrNeg(x) == (FrModulus - x) % FrModulus

\* Curve::AffineElement operator*(Fr): the scalar acts by the value it denotes.
PointMul(p, s) == (p * from_montgomery_form(s)) % FrModulus

\* Fr::split_into_endomorphism_scalars(k, k1, k2), on the non-Montgomery data
\* k: the short pair with k = k1 + k2 * lambda, the least k2 first.
EndoSplitK2(k) ==
    CHOOSE z2 \in 0 .. EndoHalfMax :
        /\ ((k + FrModulus * EndoLambda - z2 * EndoLambda) % FrModulus) <= EndoHalfMax
        /\ \A y \in 0 .. EndoHalfMax :
              ((k + FrModulus * EndoLambda - y * EndoLambda) % FrModulus) <= EndoHalfMax
                  => z2 <= y

EndoSplitK1(k) ==
    (k + FrModulus * EndoLambda - EndoSplitK2(k) * EndoLambda) % FrModulus

(***************************************************************************)
(* Inputs of the calls.                                                     *)
(***************************************************************************)
\* The fixed padding element of append_nonzero_ops, Point(x, y).
padding_element == 3
\* The padding scalar without its sign.
padding_scalar_One == FrOne

\* -Fr::one()
padding_scalar == FrNeg(FrOne)

PointInputs == {1}
ScalarInputs == {3}

\* struct UltraOp
MkUltraOp(op, x_lo, x_hi, y_lo, y_hi, z_1, z_2) ==
    [op |-> op, x_lo |-> x_lo, x_hi |-> x_hi, y_lo |-> y_lo, y_hi |-> y_hi,
     z_1 |-> z_1, z_2 |-> z_2]

UltraOpInputs == { MkUltraOp(1, 2, 3, 4, 5, 6, 1), MkUltraOp(2, 1, 6, 5, 4, 3, 2) }

\* std::array<Point, 4> values handed to set_commitment_data; a queue's
\* ultra_ops_commitments is not initialised by the constructor and starts
\* with any such value.
CommitmentInputs == { <<1, 2, 3, 4>>, <<5, 6, 1, 2>> }

Columns == 0 .. 3

(***************************************************************************)
(* State.                                                                   *)
(***************************************************************************)
VARIABLES
    accumulator,              \* [Queues -> Point]
    raw_ops,                  \* [Queues -> Seq(ECCVMOperation)]
    ultra_ops,                \* [Queues -> [Columns -> Seq(Fr)]]
    current_ultra_ops_size,   \* [Queues -> Nat]
    previous_ultra_ops_size,  \* [Queues -> Nat]
    ultra_ops_commitments,    \* [Queues -> std::array<Point, 4>]
    finalized,                \* history: queues on which set_size_data was called
    merge,                    \* history: the merge under way, if any
    resized,                  \* history: queues whose sizes were set and not moved since
    populated,                \* history: populate_ultra_ops calls made on each queue
    windowed,                 \* history: queues whose state saw set_size_data
                              \*          or prepend_previous_queue
    summed,                   \* history: [Queues -> Point], the sum of the points accumulated
    chain,                    \* history: the chain of stitched queues under way, if any
    maxLogs,                       \* MemoryArchiverStore: number
    l2BlockContexts,               \* L2BlockContext[]
    txEffects,                     \* TxEffect[]
    encryptedLogsPerBlock,         \* L2BlockL2Logs[], possibly with holes
    unencryptedLogsPerBlock,       \* L2BlockL2Logs[], possibly with holes
    newL1ToL2Messages,             \* NewL1ToL2MessageStore
    pendingL1ToL2Messages,         \* PendingL1ToL2MessageStore
    lastL1BlockNewMessages,        \* bigint
    lastL1BlockAddedMessages,      \* bigint
    lastL1BlockCancelledMessages,  \* bigint
    resolved                       \* the store's last call and what its promise gave
\* The history variables are recorded under the specifications that need
\* them (SpecHistory, SpecResize, SpecPopulate, SpecWindow, SpecAccumulate,
\* SpecChain)
\* and stay as they start under Spec.

\* The queues with their histories, and the archiver store: the queue
\* specifications leave the store idle, the store specifications the queues.
queueVars == <<accumulator, raw_ops, ultra_ops, current_ultra_ops_size,
               previous_ultra_ops_size, ultra_ops_commitments, finalized, merge,
               resized, populated, windowed, summed, chain>>

logVars == <<maxLogs, l2BlockContexts, txEffects, encryptedLogsPerBlock,
             unencryptedLogsPerBlock>>

messageVars == <<newL1ToL2Messages, pendingL1ToL2Messages, lastL1BlockNewMessages,
                 lastL1BlockAddedMessages, lastL1BlockCancelledMessages>>

storeVars == <<logVars, messageVars, resolved>>

vars == <<queueVars, storeVars>>

\* bb::eccvm::VMOperation, as the queue fills it in.
ECCVMOperation(add, mul, eq, reset, base_point, z1, z2, mul_scalar_full) ==
    [add |-> add, mul |-> mul, eq |-> eq, reset |-> reset,
     base_point |-> base_point, z1 |-> z1, z2 |-> z2,
     mul_scalar_full |-> mul_scalar_full]

EmptyColumns == [i \in Columns |-> <<>>]

\* The history of a merge: a finalized queue `previous` was prepended to the
\* freshly built queue q, whose columns were `original` (stage "prepended"),
\* and q.set_size_data() was the very next call (stage "finalized").  Any
\* other call ends the record.
Merge(stage, q, previous, original) ==
    [stage |-> stage, q |-> q, previous |-> previous, original |-> original]

NoMerge == Merge("none", "A", "A", EmptyColumns)

\* The record of a chain of stitched queues: how far its last queue q, the
\* n-th of the chain, has come ("prepended", "finalized", or "none" when no
\* chain is under way), the queues `built` that only appends were made on
\* since their construction, what the predecessor of q gave as its current
\* size and its full transcript when it was prepended, and the original
\* transcripts of the chain's queues one after the other.
Chain(stage, q, n, built, size, previous, originals) ==
    [stage |-> stage, q |-> q, n |-> n, built |-> built, size |-> size,
     previous |-> previous, originals |-> originals]

NoChainWith(built) == Chain("none", "A", 0, built, 0, EmptyColumns, EmptyColumns)

NoChain == NoChainWith(Queues)

\* A queue in the state that construction and appends alone leave it in:
\* never finalized, and with both counters still zero.
Fresh(q) ==
    /\ q \notin finalized
    /\ current_ultra_ops_size[q] = 0
    /\ previous_ultra_ops_size[q] = 0

\* The rows of logged operations queue q holds: a raw record counts as the
\* two rows its wire encoding takes.
HeldBy(q) == 2 * Len(raw_ops[q]) + Len(ultra_ops[q][0])

\* n plus the rows the queues of S hold.
RECURSIVE HeldRowsFrom(_, _)
HeldRowsFrom(S, n) ==
    IF S = {} THEN n
    ELSE LET q == CHOOSE x \in S : TRUE IN HeldRowsFrom(S \ {q}, n + HeldBy(q))

HeldRows == HeldRowsFrom(Queues, 0)

\* Room left for n more raw records, and for n more rows (a prepend takes
\* the rows the predecessor holds).
RawRoom(n) == HeldRows + 2 * n <= 2 * MaxOps
UltraRoom(n) == HeldRows + n <= 2 * MaxOps

(***************************************************************************)
(* MemoryArchiverStore: values and construction.                            *)
(***************************************************************************)
\* The largest L1 block number handed to the store, the most L2 blocks it
\* is given, and the largest constructor value of maxLogs.
MaxL1Block == 3
MaxBlocks == 2
MaxMaxLogs == 3

\* @aztec/circuits.js INITIAL_L2_BLOCK_NUM.
INITIAL_L2_BLOCK_NUM == 1

\* A value that may be undefined: no element, or the one value.
Undefined == {}
Defined(v) == {v}
ValueOf(x) == CHOOSE v \in x : TRUE

\* Entry keys of L1 to L2 messages (nonzero field elements); a message is
\* known by its entry key, a NewInboxLeaf by its leaf.
EntryKeys == {1, 2}
EntryKeyInputs == { <<>>, <<1>>, <<1, 2>>, <<2, 2>> }
LeafInputs == { <<>>, <<1>> }
L1BlockNumbers == 0 .. MaxL1Block

\* What the promise of a call gave.
Returned(call, value) == [call |-> call, value |-> value]
NotCalled == Returned("constructor", TRUE)

\* new MemoryArchiverStore(n): the field initialisers and the constructor.
MemoryArchiverStore(n) ==
    /\ maxLogs = n
    /\ l2BlockContexts = <<>>
    /\ txEffects = <<>>
    /\ encryptedLogsPerBlock = <<>>
    /\ unencryptedLogsPerBlock = <<>>
    /\ newL1ToL2Messages = <<>>
    /\ pendingL1ToL2Messages = [entryKey \in EntryKeys |-> 0]
    /\ lastL1BlockNewMessages = 0
    /\ lastL1BlockAddedMessages = 0
    /\ lastL1BlockCancelledMessages = 0
    /\ resolved = NotCalled

\* The queues as constructed, with no history.
QueuesConstructed ==
    /\ accumulator = [q \in Queues |-> point_at_infinity]
    /\ raw_ops = [q \in Queues |-> <<>>]
    /\ ultra_ops = [q \in Queues |-> EmptyColumns]
    /\ current_ultra_ops_size = [q \in Queues |-> 0]
    /\ previous_ultra_ops_size = [q \in Queues |-> 0]
    /\ ultra_ops_commitments \in [Queues -> CommitmentInputs]
    /\ finalized = {}
    /\ merge = NoMerge
    /\ resized = {}
    /\ populated = [q \in Queues |-> 0]
    /\ windowed = {}
    /\ summed = [q \in Queues |-> point_at_infinity]
    /\ chain = NoChain

\* The queue specifications start with the queues as constructed and a store
\* that stays idle; the store specifications start with a store constructed
\* with any maxLogs and queues that stay idle.
Init == QueuesConstructed /\ MemoryArchiverStore(1)

InitStore ==
    /\ QueuesConstructed
    /\ ultra_ops_commitments = [q \in Queues |-> <<1, 2, 3, 4>>]
    /\ \E n \in 0 .. MaxMaxLogs : MemoryArchiverStore(n)

\* The message operations never read maxLogs: one constructor value.
InitMessages == InitStore /\ maxLogs = 1

(***************************************************************************)
(* Accessors.                                                               *)
(***************************************************************************)
get_accumulator(q) == accumulator[q]
get_previous_size(q) == previous_ultra_ops_size[q]
get_current_size(q) == current_ultra_ops_size[q]

\* The value a span reads past the end of its vector: not an Fr.
OutOfBounds == -1

\* std::span<Fr>(entry.begin(), n)
Span(entry, n) == [k \in 1 .. n |-> IF k <= Len(entry) THEN entry[k] ELSE OutOfBounds]

get_aggregate_transcript(q) == [i \in Columns |-> ultra_ops[q][i]]

get_previous_aggregate_transcript(q) ==
    [i \in Columns |-> Span(ultra_ops[q][i], previous_ultra_ops_size[q])]

(***************************************************************************)
(* Appends to the raw operation log.                                        *)
(***************************************************************************)
\* The point assigned to the accumulator instead of added to it.
AddAccumulator_Assigned(acc, to_add) == to_add

\* What add_accumulate does to the accumulator and the record it stores.
AddAccumulator(acc, to_add) == PointAdd(acc, to_add)

AddRecord(to_add) ==
    ECCVMOperation(TRUE, FALSE, FALSE, FALSE, to_add,
                   FrLiteral(0), FrLiteral(0), FrLiteral(0))

\* The product assigned to the accumulator instead of added to it.
MulAccumulator_Assigned(acc, to_mul, scalar) == PointMul(to_mul, scalar)

\* What mul_accumulate does to the accumulator and the record it stores.
MulAccumulator(acc, to_mul, scalar) == PointAdd(acc, PointMul(to_mul, scalar))

\* The split applied to the scalar as stored, the conversion of line 218
\* left out.
MulRecord_Unconverted(to_mul, scalar) ==
    LET z1 == to_montgomery_form(EndoSplitK1(scalar))
        z2 == to_montgomery_form(EndoSplitK2(scalar))
    IN  ECCVMOperation(FALSE, TRUE, FALSE, FALSE, to_mul, z1, z2, scalar)

\* The two halves stored as the split leaves them, not converted back.
MulRecord_RawHalves(to_mul, scalar) ==
    LET converted == from_montgomery_form(scalar)
        z1 == EndoSplitK1(converted)
        z2 == EndoSplitK2(converted)
    IN  ECCVMOperation(FALSE, TRUE, FALSE, FALSE, to_mul, z1, z2, scalar)

MulRecord(to_mul, scalar) ==
    LET converted == from_montgomery_form(scalar)
        z1 == to_montgomery_form(EndoSplitK1(converted))
        z2 == to_montgomery_form(EndoSplitK2(converted))
    IN  ECCVMOperation(FALSE, TRUE, FALSE, FALSE, to_mul, z1, z2, scalar)

\* The EQUALITY record without its reset flag.
EqRecord_NoReset(expected) ==
    ECCVMOperation(FALSE, FALSE, TRUE, FALSE, expected,
                   FrLiteral(0), FrLiteral(0), FrLiteral(0))

\* The accumulator captured after its reset instead of before.
EqRecord_AfterReset(expected) ==
    ECCVMOperation(FALSE, FALSE, TRUE, TRUE, point_at_infinity,
                   FrLiteral(0), FrLiteral(0), FrLiteral(0))

\* The value eq returns: the accumulator it captured before the reset.
EqReturned(expected) == expected

\* The record eq stores for the accumulator value it captured.
EqRecord(expected) ==
    ECCVMOperation(FALSE, FALSE, TRUE, TRUE, expected,
                   FrLiteral(0), FrLiteral(0), FrLiteral(0))

\* The empty record with the reset flag of the EQUALITY record left set.
EmptyRecord_Reset ==
    ECCVMOperation(FALSE, FALSE, FALSE, TRUE, point_at_infinity,
                   FrLiteral(0), FrLiteral(0), FrLiteral(0))

EmptyRecord ==
    ECCVMOperation(FALSE, FALSE, FALSE, FALSE, point_at_infinity,
                   FrLiteral(0), FrLiteral(0), FrLiteral(0))

\* A raw-log call that also refreshes current_ultra_ops_size.
WireUnchanged_Resized ==
    /\ current_ultra_ops_size'
          = [q \in Queues |-> Len(ultra_ops[q][0])]
    /\ UNCHANGED <<ultra_ops, previous_ultra_ops_size, ultra_ops_commitments>>

WireUnchanged ==
    UNCHANGED <<ultra_ops, current_ultra_ops_size, previous_ultra_ops_size,
                ultra_ops_commitments>>

add_accumulate(q, to_add) ==
    /\ RawRoom(1)
    /\ accumulator' = [accumulator EXCEPT ![q] = AddAccumulator(@, to_add)]
    /\ raw_ops' = [raw_ops EXCEPT ![q] = Append(@, AddRecord(to_add))]
    /\ WireUnchanged

mul_accumulate(q, to_mul, scalar) ==
    /\ RawRoom(1)
    /\ accumulator' = [accumulator EXCEPT ![q] = MulAccumulator(@, to_mul, scalar)]
    /\ raw_ops' = [raw_ops EXCEPT ![q] = Append(@, MulRecord(to_mul, scalar))]
    /\ WireUnchanged

eq(q) ==
    /\ RawRoom(1)
    /\ accumulator' = [accumulator EXCEPT ![q] = point_at_infinity]
    /\ raw_ops' = [raw_ops EXCEPT ![q] = Append(@, EqRecord(accumulator[q]))]
    /\ WireUnchanged

empty_row(q) ==
    /\ RawRoom(1)
    /\ raw_ops' = [raw_ops EXCEPT ![q] = Append(@, EmptyRecord)]
    /\ UNCHANGED accumulator
    /\ WireUnchanged

\* mul_accumulate(padding_element, padding_scalar) followed by eq().
append_nonzero_ops(q) ==
    /\ RawRoom(2)
    /\ LET acc1 == MulAccumulator(accumulator[q], padding_element, padding_scalar)
           raw1 == Append(raw_ops[q], MulRecord(padding_element, padding_scalar))
       IN  /\ accumulator' = [accumulator EXCEPT ![q] = point_at_infinity]
           /\ raw_ops' = [raw_ops EXCEPT ![q] = Append(raw1, EqRecord(acc1))]
    /\ WireUnchanged

(***************************************************************************)
(* The wire transcript.                                                     *)
(***************************************************************************)
\* populate_ultra_ops without the zero it puts under the opcode.
PopulatedColumns_NoZeroRow(cols, tuple) ==
    [i \in Columns |->
        CASE i = 0 -> cols[0] \o <<tuple.op>>
          [] i = 1 -> cols[1] \o <<tuple.x_lo, tuple.y_hi>>
          [] i = 2 -> cols[2] \o <<tuple.x_hi, tuple.z_1>>
          [] i = 3 -> cols[3] \o <<tuple.y_lo, tuple.z_2>>]

\* populate_ultra_ops without its second row.
PopulatedColumns_OneRow(cols, tuple) ==
    [i \in Columns |->
        CASE i = 0 -> cols[0] \o <<tuple.op>>
          [] i = 1 -> cols[1] \o <<tuple.x_lo>>
          [] i = 2 -> cols[2] \o <<tuple.x_hi>>
          [] i = 3 -> cols[3] \o <<tuple.y_lo>>]

\* populate_ultra_ops assigning the two rows instead of appending them.
PopulatedColumns_Assigned(cols, tuple) ==
    [i \in Columns |->
        CASE i = 0 -> <<tuple.op, FrLiteral(0)>>
          [] i = 1 -> <<tuple.x_lo, tuple.y_hi>>
          [] i = 2 -> <<tuple.x_hi, tuple.z_1>>
          [] i = 3 -> <<tuple.y_lo, tuple.z_2>>]

\* populate_ultra_ops writing the seven values row by row.
PopulatedColumns_RowByRow(cols, tuple) ==
    [i \in Columns |->
        CASE i = 0 -> cols[0] \o <<tuple.op, FrLiteral(0)>>
          [] i = 1 -> cols[1] \o <<tuple.x_lo, tuple.x_hi>>
          [] i = 2 -> cols[2] \o <<tuple.y_lo, tuple.y_hi>>
          [] i = 3 -> cols[3] \o <<tuple.z_1, tuple.z_2>>]

\* The four columns after populate_ultra_ops(tuple).
PopulatedColumns(cols, tuple) ==
    [i \in Columns |->
        CASE i = 0 -> cols[0] \o <<tuple.op, FrLiteral(0)>>
          [] i = 1 -> cols[1] \o <<tuple.x_lo, tuple.y_hi>>
          [] i = 2 -> cols[2] \o <<tuple.x_hi, tuple.z_1>>
          [] i = 3 -> cols[3] \o <<tuple.y_lo, tuple.z_2>>]

populate_ultra_ops(q, tuple) ==
    /\ UltraRoom(2)
    /\ ultra_ops' = [ultra_ops EXCEPT ![q] = PopulatedColumns(@, tuple)]
    /\ UNCHANGED <<accumulator, raw_ops, current_ultra_ops_size,
                   previous_ultra_ops_size, ultra_ops_commitments>>

\* set_size_data that forgets to move the current size to the previous one.
SizeDataPrevious_Stale(cur, prev, cols) == prev

\* set_size_data that never reads the column length.
SizeDataCurrent_Kept(cur, prev, cols) == cur

\* The two counters after set_size_data().
SizeDataPrevious(cur, prev, cols) == cur
SizeDataCurrent(cur, prev, cols) == Len(cols[0])

set_size_data(q) ==
    /\ previous_ultra_ops_size' =
          [previous_ultra_ops_size EXCEPT
              ![q] = SizeDataPrevious(current_ultra_ops_size[q], @, ultra_ops[q])]
    /\ current_ultra_ops_size' =
          [current_ultra_ops_size EXCEPT
              ![q] = SizeDataCurrent(@, previous_ultra_ops_size[q], ultra_ops[q])]
    /\ UNCHANGED <<accumulator, raw_ops, ultra_ops, ultra_ops_commitments>>

\* set_commitment_data that stores value-initialised points instead of the
\* array it is given.
set_commitment_data_Cleared(q, commitments) ==
    /\ ultra_ops_commitments' =
          [ultra_ops_commitments EXCEPT
              ![q] = <<point_at_infinity, point_at_infinity,
                       point_at_infinity, point_at_infinity>>]
    /\ UNCHANGED <<accumulator, raw_ops, ultra_ops, current_ultra_ops_size,
                   previous_ultra_ops_size>>

set_commitment_data(q, commitments) ==
    /\ ultra_ops_commitments' = [ultra_ops_commitments EXCEPT ![q] = commitments]
    /\ UNCHANGED <<accumulator, raw_ops, ultra_ops, current_ultra_ops_size,
                   previous_ultra_ops_size>>

(***************************************************************************)
(* Merge and swap.                                                          *)
(***************************************************************************)
\* The raw ops copied in the wrong order.
PrependedRawOps_Reversed(own, prev) == own \o prev

\* The second copy, of this queue's own raw ops, left out.
PrependedRawOps_Replaced(own, prev) == prev

\* raw_ops_updated: the previous raw ops, then this queue's.
PrependedRawOps(own, prev) == prev \o own

\* The two copies into current_ultra_op with their places exchanged.
PrependedColumn_Appended(own, prev) == own \o prev

\* current_ultra_op: the previous column, then this queue's.
PrependedColumn(own, prev) == prev \o own

\* The size update left out.
PrependedSize_Kept(size, previous_column_size) == size

\* A counter after `+= previous.ultra_ops[0].size()`.
PrependedSize(size, previous_column_size) == size + previous_column_size

\* The commitment update left out.
PrependedCommitments_Kept(own, prev) == own

\* ultra_ops_commitments after the update from previous.
PrependedCommitments(own, prev) == prev

\* previous may be the queue itself (prepend_previous_queue(*this), or the
\* pointer overload with this): the two size updates read
\* previous.ultra_ops[0].size() after the loop has replaced the columns.
prepend_previous_queue(q, previous) ==
    /\ UltraRoom(HeldBy(previous))
    /\ raw_ops' = [raw_ops EXCEPT ![q] = PrependedRawOps(@, raw_ops[previous])]
    /\ ultra_ops' =
          [ultra_ops EXCEPT
              ![q] = [i \in Columns |-> PrependedColumn(@[i], ultra_ops[previous][i])]]
    /\ current_ultra_ops_size' =
          [current_ultra_ops_size EXCEPT
              ![q] = PrependedSize(@, Len(ultra_ops'[previous][0]))]
    /\ previous_ultra_ops_size' =
          [previous_ultra_ops_size EXCEPT
              ![q] = PrependedSize(@, Len(ultra_ops'[previous][0]))]
    /\ ultra_ops_commitments' =
          [ultra_ops_commitments EXCEPT
              ![q] = PrependedCommitments(@, ultra_ops_commitments[previous])]
    /\ UNCHANGED accumulator

\* The value lhs holds after the exchange of one field.
SwappedLhs(lhs_value, rhs_value) == rhs_value
SwappedRhs(lhs_value, rhs_value) == lhs_value

Exchange(field, lhs, rhs) ==
    [field EXCEPT ![lhs] = SwappedLhs(field[lhs], field[rhs]),
                  ![rhs] = SwappedRhs(field[lhs], field[rhs])]

\* The commitments exchanged without the temporary: rhs keeps its own.
SwappedCommitments_NoTemp(commitments, lhs, rhs) ==
    [commitments EXCEPT ![lhs] = commitments[rhs], ![rhs] = commitments[rhs]]

\* The commitments of the two queues after swap.
SwappedCommitments(commitments, lhs, rhs) == Exchange(commitments, lhs, rhs)

swap(lhs, rhs) ==
    /\ raw_ops' = Exchange(raw_ops, lhs, rhs)
    /\ ultra_ops' = Exchange(ultra_ops, lhs, rhs)
    /\ current_ultra_ops_size' = Exchange(current_ultra_ops_size, lhs, rhs)
    /\ previous_ultra_ops_size' = Exchange(previous_ultra_ops_size, lhs, rhs)
    /\ ultra_ops_commitments' = SwappedCommitments(ultra_ops_commitments, lhs, rhs)
    /\ UNCHANGED accumulator

(***************************************************************************)
(* The specification: any call on any queue, in any order.                  *)
(***************************************************************************)
\* The history of calls, which SpecHistory does not record.
CallsUnrecorded == UNCHANGED <<resized, populated, windowed, summed, chain,
                               storeVars>>

NoHistory == UNCHANGED <<finalized, merge>> /\ CallsUnrecorded

Next ==
    \/ \E q \in Queues, to_add \in PointInputs :
          add_accumulate(q, to_add) /\ NoHistory
    \/ \E q \in Queues, to_mul \in PointInputs, scalar \in ScalarInputs :
          mul_accumulate(q, to_mul, scalar) /\ NoHistory
    \/ \E q \in Queues : eq(q) /\ NoHistory
    \/ \E q \in Queues : empty_row(q) /\ NoHistory
    \/ \E q \in Queues : append_nonzero_ops(q) /\ NoHistory
    \/ \E q \in Queues, tuple \in UltraOpInputs :
          populate_ultra_ops(q, tuple) /\ NoHistory
    \/ \E q \in Queues : set_size_data(q) /\ NoHistory
    \/ \E q \in Queues, commitments \in CommitmentInputs :
          set_commitment_data(q, commitments) /\ NoHistory
    \/ \E q \in Queues, previous \in Queues :
          prepend_previous_queue(q, previous) /\ NoHistory
    \/ \E lhs \in Queues, rhs \in Queues : swap(lhs, rhs) /\ NoHistory

Spec == Init /\ [][Next]_vars

(***************************************************************************)
(* The same calls with their history recorded: which queues were           *)
(* finalized, and the merge under way.                                      *)
(***************************************************************************)
\* A call that neither finalizes nor merges.
PlainCall ==
    /\ UNCHANGED finalized
    /\ merge' = NoMerge
    /\ CallsUnrecorded

\* set_size_data() on q: q is finalized, and a merge into q is complete.
FinalizeCall(q) ==
    /\ finalized' = finalized \cup {q}
    /\ merge' = IF merge.stage = "prepended" /\ merge.q = q
                THEN [merge EXCEPT !.stage = "finalized"]
                ELSE NoMerge
    /\ CallsUnrecorded

\* prepend_previous_queue(previous) on q: a merge begins when q is freshly
\* built and previous is finalized.
PrependCall(q, previous) ==
    /\ merge' = IF Fresh(q) /\ previous \in finalized
                THEN Merge("prepended", q, previous, ultra_ops[q])
                ELSE NoMerge
    /\ UNCHANGED finalized
    /\ CallsUnrecorded

NextHistory ==
    \/ \E q \in Queues, to_add \in PointInputs :
          add_accumulate(q, to_add) /\ PlainCall
    \/ \E q \in Queues, to_mul \in PointInputs, scalar \in ScalarInputs :
          mul_accumulate(q, to_mul, scalar) /\ PlainCall
    \/ \E q \in Queues : eq(q) /\ PlainCall
    \/ \E q \in Queues : empty_row(q) /\ PlainCall
    \/ \E q \in Queues : append_nonzero_ops(q) /\ PlainCall
    \/ \E q \in Queues, tuple \in UltraOpInputs :
          populate_ultra_ops(q, tuple) /\ PlainCall
    \/ \E q \in Queues : set_size_data(q) /\ FinalizeCall(q)
    \/ \E q \in Queues, commitments \in CommitmentInputs :
          set_commitment_data(q, commitments) /\ PlainCall
    \/ \E q \in Queues, previous \in Queues :
          prepend_previous_queue(q, previous) /\ PrependCall(q, previous)
    \/ \E lhs \in Queues, rhs \in Queues : swap(lhs, rhs) /\ PlainCall

SpecHistory == Init /\ [][NextHistory]_vars

(***************************************************************************)
(* The same calls with one fact about the calls made so far recorded.      *)
(***************************************************************************)
\* SpecResize records the queues whose sizes were set by set_size_data and
\* whose columns and counters no call has moved since.
OnlyResized == UNCHANGED <<finalized, merge, populated, windowed, summed, chain,
                         storeVars>>

KeepsSizes == UNCHANGED resized /\ OnlyResized
SetsSizes(q) == resized' = resized \cup {q} /\ OnlyResized
MovesSizes(S) == resized' = resized \ S /\ OnlyResized

NextResize ==
    \/ \E q \in Queues, to_add \in PointInputs :
          add_accumulate(q, to_add) /\ KeepsSizes
    \/ \E q \in Queues, to_mul \in PointInputs, scalar \in ScalarInputs :
          mul_accumulate(q, to_mul, scalar) /\ KeepsSizes
    \/ \E q \in Queues : eq(q) /\ KeepsSizes
    \/ \E q \in Queues : empty_row(q) /\ KeepsSizes
    \/ \E q \in Queues : append_nonzero_ops(q) /\ KeepsSizes
    \/ \E q \in Queues, tuple \in UltraOpInputs :
          populate_ultra_ops(q, tuple) /\ MovesSizes({q})
    \/ \E q \in Queues : set_size_data(q) /\ SetsSizes(q)
    \/ \E q \in Queues, commitments \in CommitmentInputs :
          set_commitment_data(q, commitments) /\ KeepsSizes
    \/ \E q \in Queues, previous \in Queues :
          prepend_previous_queue(q, previous) /\ MovesSizes({q})
    \/ \E lhs \in Queues, rhs \in Queues :
          swap(lhs, rhs) /\ MovesSizes({lhs, rhs})

SpecResize == Init /\ [][NextResize]_vars

\* SpecPopulate records, for a queue that nothing was prepended to or
\* swapped with, the number of populate_ultra_ops calls made on it.
OnlyPopulated == UNCHANGED <<finalized, merge, resized, windowed, summed, chain,
                         storeVars>>

\* The record of a queue whose entries need not be its own.
Grafted == -1

CountsNothing == UNCHANGED populated /\ OnlyPopulated

CountsPopulate(q) ==
    /\ populated' = [populated EXCEPT ![q] = IF @ = Grafted THEN Grafted ELSE @ + 1]
    /\ OnlyPopulated

Grafts(S) ==
    /\ populated' = [q \in Queues |-> IF q \in S THEN Grafted ELSE populated[q]]
    /\ OnlyPopulated

NextPopulate ==
    \/ \E q \in Queues, to_add \in PointInputs :
          add_accumulate(q, to_add) /\ CountsNothing
    \/ \E q \in Queues, to_mul \in PointInputs, scalar \in ScalarInputs :
          mul_accumulate(q, to_mul, scalar) /\ CountsNothing
    \/ \E q \in Queues : eq(q) /\ CountsNothing
    \/ \E q \in Queues : empty_row(q) /\ CountsNothing
    \/ \E q \in Queues : append_nonzero_ops(q) /\ CountsNothing
    \/ \E q \in Queues, tuple \in UltraOpInputs :
          populate_ultra_ops(q, tuple) /\ CountsPopulate(q)
    \/ \E q \in Queues : set_size_data(q) /\ CountsNothing
    \/ \E q \in Queues, commitments \in CommitmentInputs :
          set_commitment_data(q, commitments) /\ CountsNothing
    \/ \E q \in Queues, previous \in Queues :
          prepend_previous_queue(q, previous) /\ Grafts({q})
    \/ \E lhs \in Queues, rhs \in Queues :
          swap(lhs, rhs) /\ Grafts({lhs, rhs})

SpecPopulate == Init /\ [][NextPopulate]_vars

\* SpecWindow records the queues on which set_size_data or
\* prepend_previous_queue, the two methods that write
\* previous_ultra_ops_size, was ever called; swap exchanges the record of
\* two queues together with their state.
OnlyWindowed == UNCHANGED <<finalized, merge, resized, populated, summed, chain,
                         storeVars>>

NoWindowCall == UNCHANGED windowed /\ OnlyWindowed
WindowCall(q) == windowed' = windowed \cup {q} /\ OnlyWindowed

WindowSwap(lhs, rhs) ==
    /\ windowed' = { q \in Queues : IF q = lhs THEN rhs \in windowed
                                     ELSE IF q = rhs THEN lhs \in windowed
                                     ELSE q \in windowed }
    /\ OnlyWindowed

NextWindow ==
    \/ \E q \in Queues, to_add \in PointInputs :
          add_accumulate(q, to_add) /\ NoWindowCall
    \/ \E q \in Queues, to_mul \in PointInputs, scalar \in ScalarInputs :
          mul_accumulate(q, to_mul, scalar) /\ NoWindowCall
    \/ \E q \in Queues : eq(q) /\ NoWindowCall
    \/ \E q \in Queues : empty_row(q) /\ NoWindowCall
    \/ \E q \in Queues : append_nonzero_ops(q) /\ NoWindowCall
    \/ \E q \in Queues, tuple \in UltraOpInputs :
          populate_ultra_ops(q, tuple) /\ NoWindowCall
    \/ \E q \in Queues : set_size_data(q) /\ WindowCall(q)
    \/ \E q \in Queues, commitments \in CommitmentInputs :
          set_commitment_data(q, commitments) /\ NoWindowCall
    \/ \E q \in Queues, previous \in Queues :
          prepend_previous_queue(q, previous) /\ WindowCall(q)
    \/ \E lhs \in Queues, rhs \in Queues :
          swap(lhs, rhs) /\ WindowSwap(lhs, rhs)

SpecWindow == Init /\ [][NextWindow]_vars

(***************************************************************************)
(* Accumulation alone: add_accumulate and mul_accumulate on queues as      *)
(* constructed, with the sum of what was accumulated kept beside the       *)
(* queue.                                                                   *)
(***************************************************************************)
AccumulatePoints == {point_at_infinity, 1, 3}
AccumulateScalars == {FrLiteral(0), FrLiteral(5), FrNeg(FrOne)}

\* n * p by repeated addition, n a natural number.
RECURSIVE Times(_, _)
Times(n, p) == IF n = 0 THEN point_at_infinity ELSE PointAdd(Times(n - 1, p), p)

OnlySummed == UNCHANGED <<finalized, merge, resized, populated, windowed, chain,
                         storeVars>>

Sums(q, p) ==
    /\ summed' = [summed EXCEPT ![q] = PointAdd(@, p)]
    /\ OnlySummed

NextAccumulate ==
    \/ \E q \in Queues, to_add \in AccumulatePoints :
          add_accumulate(q, to_add) /\ Sums(q, to_add)
    \/ \E q \in Queues, to_mul \in AccumulatePoints, scalar \in AccumulateScalars :
          mul_accumulate(q, to_mul, scalar)
             /\ Sums(q, Times(from_montgomery_form(scalar), to_mul))

SpecAccumulate == Init /\ [][NextAccumulate]_vars

(***************************************************************************)
(* Properties of merge, swap and finalize.                                  *)
(***************************************************************************)
\* All the fields of queue q but its accumulator.
LoggedState(q) ==
    <<raw_ops[q], ultra_ops[q], current_ultra_ops_size[q],
      previous_ultra_ops_size[q], ultra_ops_commitments[q]>>

\* C1: when a finalized queue A was prepended to a freshly built queue B and
\* B.set_size_data() followed, B's previous aggregate transcript is A's full
\* transcript, and B's aggregate transcript is, column by column, A's
\* transcript followed by B's original one.
MergeCorrectness ==
    merge.stage = "finalized" =>
        /\ get_previous_aggregate_transcript(merge.q)
              = get_aggregate_transcript(merge.previous)
        /\ \A i \in Columns :
              get_aggregate_transcript(merge.q)[i]
                 = get_aggregate_transcript(merge.previous)[i] \o merge.original[i]

\* A merge of two queues that both hold wire operations has been finalized.
MergeCorrectnessWitness ==
    /\ merge.stage = "finalized"
    /\ merge.q # merge.previous
    /\ Len(ultra_ops[merge.previous][0]) > 0
    /\ Len(merge.original[0]) > 0

\* C2: in every reachable state the four ultra_ops columns of a queue have
\* the same length, and that length is even.
ColumnsAlignedAndEven ==
    \A q \in Queues :
        /\ \A i \in Columns : Len(ultra_ops[q][i]) = Len(ultra_ops[q][0])
        /\ Len(ultra_ops[q][0]) % 2 = 0

\* A queue holds two wire operations, the first of them prepended from the
\* other queue, and was finalized after that.
ColumnsAlignedAndEvenWitness ==
    \E q \in Queues : \E previous \in Queues \ {q} :
        /\ Len(ultra_ops[previous][0]) = 2
        /\ Len(ultra_ops[q][0]) = 4
        /\ \A i \in Columns :
              SubSeq(ultra_ops[q][i], 1, 2) = ultra_ops[previous][i]
        /\ previous_ultra_ops_size[q] = 2
        /\ current_ultra_ops_size[q] = 4

\* C3: once set_size_data was called on a queue,
\* previous_ultra_ops_size <= current_ultra_ops_size <= ultra_ops[0].length
\* holds of it in every later state.
SizesOrderedOnceFinalized ==
    \A q \in finalized :
        /\ previous_ultra_ops_size[q] <= current_ultra_ops_size[q]
        /\ current_ultra_ops_size[q] <= Len(ultra_ops[q][0])

\* C4: swap(lhs, rhs) exchanges all state, the accumulator included: every
\* accessor returns on each queue what it returned on the other before.
SwapExchangesAllState ==
    [][\A lhs, rhs \in Queues :
          swap(lhs, rhs) =>
              /\ get_accumulator(lhs)' = get_accumulator(rhs)
              /\ get_accumulator(rhs)' = get_accumulator(lhs)
              /\ get_current_size(lhs)' = get_current_size(rhs)
              /\ get_current_size(rhs)' = get_current_size(lhs)
              /\ get_previous_size(lhs)' = get_previous_size(rhs)
              /\ get_previous_size(rhs)' = get_previous_size(lhs)
              /\ get_aggregate_transcript(lhs)' = get_aggregate_transcript(rhs)
              /\ get_aggregate_transcript(rhs)' = get_aggregate_transcript(lhs)
              /\ get_previous_aggregate_transcript(lhs)'
                    = get_previous_aggregate_transcript(rhs)
              /\ get_previous_aggregate_transcript(rhs)'
                    = get_previous_aggregate_transcript(lhs)]_vars

\* C5: swap(lhs, rhs) exchanges raw_ops, the four ultra_ops columns, both
\* size counters and the commitments of the two queues.
SwapExchangesLoggedState ==
    [][\A lhs, rhs \in Queues :
          swap(lhs, rhs) =>
              /\ raw_ops'[lhs] = raw_ops[rhs]
              /\ raw_ops'[rhs] = raw_ops[lhs]
              /\ \A i \in Columns :
                    /\ ultra_ops'[lhs][i] = ultra_ops[rhs][i]
                    /\ ultra_ops'[rhs][i] = ultra_ops[lhs][i]
              /\ current_ultra_ops_size'[lhs] = current_ultra_ops_size[rhs]
              /\ current_ultra_ops_size'[rhs] = current_ultra_ops_size[lhs]
              /\ previous_ultra_ops_size'[lhs] = previous_ultra_ops_size[rhs]
              /\ previous_ultra_ops_size'[rhs] = previous_ultra_ops_size[lhs]
              /\ ultra_ops_commitments'[lhs] = ultra_ops_commitments[rhs]
              /\ ultra_ops_commitments'[rhs] = ultra_ops_commitments[lhs]]_vars

\* Two queues after a swap: lhs holds an empty log beside the accumulator
\* of the record it logged, rhs that record beside the accumulator of an
\* empty log; their other fields differ too.
SwapExchangesLoggedStateWitness ==
    \E lhs \in Queues : \E rhs \in Queues \ {lhs} :
        /\ raw_ops[lhs] = <<>>
        /\ accumulator[lhs] # point_at_infinity
        /\ Len(raw_ops[rhs]) = 1
        /\ raw_ops[rhs][1].add
        /\ accumulator[rhs] = point_at_infinity
        /\ Len(ultra_ops[lhs][0]) # Len(ultra_ops[rhs][0])
        /\ current_ultra_ops_size[lhs] # current_ultra_ops_size[rhs]
        /\ ultra_ops_commitments[lhs] # ultra_ops_commitments[rhs]

\* C6: prepend_previous_queue(previous) sets raw_ops to previous.raw_ops
\* followed by the old raw_ops, and each column i to previous.ultra_ops[i]
\* followed by the old ultra_ops[i].
PrependConcatenates ==
    [][\A q, previous \in Queues :
          prepend_previous_queue(q, previous) =>
              /\ raw_ops'[q] = raw_ops[previous] \o raw_ops[q]
              /\ \A i \in Columns :
                    ultra_ops'[q][i] = ultra_ops[previous][i] \o ultra_ops[q][i]]_vars

\* A queue whose log is the other queue's ADD record followed by a record
\* of its own: its accumulator never saw the ADD, which was prepended.
PrependConcatenatesWitness ==
    \E q \in Queues : \E previous \in Queues \ {q} :
        /\ Len(raw_ops[previous]) = 1
        /\ raw_ops[previous][1].add
        /\ accumulator[previous] # point_at_infinity
        /\ Len(raw_ops[q]) = 2
        /\ raw_ops[q][1] = raw_ops[previous][1]
        /\ raw_ops[q][2] # raw_ops[q][1]
        /\ ~raw_ops[q][2].eq
        /\ accumulator[q] = point_at_infinity

\* C7: prepend_previous_queue(previous) increases both size counters by the
\* column length of the predecessor, and by nothing else.
PrependAddsPredecessorLength ==
    [][\A q, previous \in Queues :
          prepend_previous_queue(q, previous) =>
              /\ current_ultra_ops_size'[q]
                    = current_ultra_ops_size[q] + Len(ultra_ops[previous][0])
              /\ previous_ultra_ops_size'[q]
                    = previous_ultra_ops_size[q] + Len(ultra_ops[previous][0])]_vars

\* C8: prepend_previous_queue never mutates its argument.
PrependLeavesArgument ==
    [][\A q, previous \in Queues :
          prepend_previous_queue(q, previous) =>
              /\ LoggedState(previous)' = LoggedState(previous)
              /\ accumulator'[previous] = accumulator[previous]]_vars

\* C9: prepend_previous_queue(previous) overwrites the commitments of the
\* queue with those of previous.
PrependOverwritesCommitments ==
    [][\A q, previous \in Queues :
          prepend_previous_queue(q, previous) =>
              ultra_ops_commitments'[q] = ultra_ops_commitments[previous]]_vars

\* A queue whose columns are the other queue's followed by an operation of
\* its own, whose counters are both the other's column length, and which
\* holds the other's commitments: the state a prepend leaves.
PrependOverwritesCommitmentsWitness ==
    \E q \in Queues : \E previous \in Queues \ {q} :
        /\ Len(ultra_ops[previous][0]) = 2
        /\ Len(ultra_ops[q][0]) = 4
        /\ \A i \in Columns :
              /\ SubSeq(ultra_ops[q][i], 1, 2) = ultra_ops[previous][i]
              /\ SubSeq(ultra_ops[q][i], 3, 4) # ultra_ops[previous][i]
        /\ current_ultra_ops_size[q] = 2
        /\ previous_ultra_ops_size[q] = 2
        /\ ultra_ops_commitments[q] = ultra_ops_commitments[previous]

\* C10: set_size_data() sets previous_ultra_ops_size to the old
\* current_ultra_ops_size and current_ultra_ops_size to ultra_ops[0].length,
\* and changes nothing else.
SetSizeDataEffect ==
    [][\A q \in Queues :
          set_size_data(q) =>
              /\ previous_ultra_ops_size'[q] = current_ultra_ops_size[q]
              /\ current_ultra_ops_size'[q] = Len(ultra_ops[q][0])
              /\ \A o \in Queues \ {q} :
                    /\ previous_ultra_ops_size'[o] = previous_ultra_ops_size[o]
                    /\ current_ultra_ops_size'[o] = current_ultra_ops_size[o]
              /\ UNCHANGED <<raw_ops, ultra_ops, accumulator,
                             ultra_ops_commitments>>]_vars

\* A queue finalized twice, with an append before each: both counters are
\* set and differ.
SetSizeDataEffectWitness ==
    \E q \in Queues :
        /\ previous_ultra_ops_size[q] = 2
        /\ current_ultra_ops_size[q] = 4
        /\ Len(ultra_ops[q][0]) = 4
        /\ ultra_ops[q][0][1] # ultra_ops[q][0][3]

(***************************************************************************)
(* Properties of the single calls and of the accumulator.                   *)
(***************************************************************************)
\* C11: a second set_size_data() on a queue, with no populate_ultra_ops (nor
\* any other call that moves its columns or counters) since the first,
\* leaves previous_ultra_ops_size == current_ultra_ops_size, both equal to
\* ultra_ops[0].length, and the call is possible in every such state.
RepeatedSetSizeData ==
    [][\A q \in Queues :
          /\ q \in resized => ENABLED set_size_data(q)
          /\ set_size_data(q) /\ q \in resized =>
                /\ previous_ultra_ops_size'[q] = current_ultra_ops_size'[q]
                /\ current_ultra_ops_size'[q] = Len(ultra_ops'[q][0])]_vars

\* A queue sized twice after one populate_ultra_ops: the other queue holds
\* no column entries, so none of the counters came from a prepend.
RepeatedSetSizeDataWitness ==
    \E q \in Queues : \E o \in Queues \ {q} :
        /\ q \in resized
        /\ Len(ultra_ops[q][0]) = 2
        /\ previous_ultra_ops_size[q] = 2
        /\ current_ultra_ops_size[q] = 2
        /\ Len(ultra_ops[o][0]) = 0
        /\ Len(raw_ops[q]) > 0

\* C12: eq() returns the accumulator held before the call, leaves the
\* accumulator (and so get_accumulator()) at the point at infinity, and
\* appends exactly one record: eq and reset set, add and mul clear,
\* base_point the returned value, all scalars zero.
EqEffect ==
    [][\A q \in Queues :
          eq(q) =>
              LET returned == EqReturned(accumulator[q])
              IN  /\ returned = get_accumulator(q)
                  /\ accumulator'[q] = point_at_infinity
                  /\ get_accumulator(q)' = point_at_infinity
                  /\ Len(raw_ops'[q]) = Len(raw_ops[q]) + 1
                  /\ SubSeq(raw_ops'[q], 1, Len(raw_ops[q])) = raw_ops[q]
                  /\ LET record == raw_ops'[q][Len(raw_ops'[q])]
                     IN  /\ record.eq /\ record.reset
                         /\ ~record.add /\ ~record.mul
                         /\ record.base_point = returned
                         /\ record.z1 = 0 /\ record.z2 = 0
                         /\ record.mul_scalar_full = 0]_vars

\* A queue on which eq() followed an add_accumulate: the record holds the
\* point that was accumulated, the accumulator is back at infinity.
EqEffectWitness ==
    \E q \in Queues :
        /\ Len(raw_ops[q]) = 2
        /\ raw_ops[q][1].add
        /\ raw_ops[q][2].eq
        /\ raw_ops[q][2].base_point = raw_ops[q][1].base_point
        /\ raw_ops[q][2].base_point # point_at_infinity
        /\ accumulator[q] = point_at_infinity

\* C13: on queues as constructed, after any sequence of add_accumulate(P)
\* and mul_accumulate(P, s) calls get_accumulator() is the group sum of the
\* P's and s*P's, summed beside the queue.
AccumulatorIsSum ==
    \A q \in Queues : get_accumulator(q) = summed[q]

\* A queue that accumulated a point and a multiple: the sum is not the
\* point at infinity and is neither of the two terms.
AccumulatorIsSumWitness ==
    \E q \in Queues :
        /\ Len(raw_ops[q]) = 2
        /\ raw_ops[q][1].add
        /\ raw_ops[q][2].mul
        /\ raw_ops[q][1].base_point # point_at_infinity
        /\ raw_ops[q][2].mul_scalar_full # FrLiteral(0)
        /\ summed[q] # point_at_infinity
        /\ summed[q] # raw_ops[q][1].base_point

\* The accumulator a queue reaches by applying the records of a log from
\* its start: an ADD record adds base_point, a MUL record adds
\* mul_scalar_full * base_point, an EQUALITY record resets, an empty record
\* does nothing.
RECURSIVE Replay(_)
Replay(ops) ==
    IF ops = <<>> THEN point_at_infinity
    ELSE LET before == Replay(SubSeq(ops, 1, Len(ops) - 1))
             record == ops[Len(ops)]
         IN  CASE record.add -> PointAdd(before, record.base_point)
               [] record.mul ->
                     PointAdd(before, PointMul(record.base_point, record.mul_scalar_full))
               [] record.eq -> point_at_infinity
               [] OTHER -> before

\* C14: in every reachable state of a queue, also after
\* prepend_previous_queue and swap, the accumulator is the result of
\* replaying the queue's raw_ops from its start.
AccumulatorReplaysLog ==
    \A q \in Queues : get_accumulator(q) = Replay(raw_ops[q])

\* C15: append_nonzero_ops() appends exactly two records, a MUL record for
\* the fixed padding point with scalar -1 and then an EQUALITY record,
\* leaves the accumulator at the point at infinity and leaves the four
\* ultra_ops columns unchanged; on an empty queue raw_ops.length is 2
\* afterwards.
AppendNonzeroOpsEffect ==
    [][\A q \in Queues :
          append_nonzero_ops(q) =>
              LET n == Len(raw_ops[q])
                  first == raw_ops'[q][n + 1]
                  second == raw_ops'[q][n + 2]
              IN  /\ Len(raw_ops'[q]) = n + 2
                  /\ SubSeq(raw_ops'[q], 1, n) = raw_ops[q]
                  /\ first.mul /\ ~first.add /\ ~first.eq /\ ~first.reset
                  /\ first.base_point = padding_element
                  /\ first.base_point # point_at_infinity
                  /\ from_montgomery_form(first.mul_scalar_full) = FrModulus - 1
                  /\ second.eq /\ second.reset /\ ~second.add /\ ~second.mul
                  /\ get_accumulator(q)' = point_at_infinity
                  /\ \A i \in Columns : ultra_ops'[q][i] = ultra_ops[q][i]
                  /\ (raw_ops[q] = <<>> => Len(raw_ops'[q]) = 2)]_vars

\* A queue that was empty but for one wire operation when
\* append_nonzero_ops() was called: the two padding records, the
\* EQUALITY record holding minus the padding point, the columns as they
\* were.
AppendNonzeroOpsEffectWitness ==
    \E q \in Queues :
        /\ Len(raw_ops[q]) = 2
        /\ raw_ops[q][1].mul
        /\ raw_ops[q][1].base_point = padding_element
        /\ raw_ops[q][2].eq
        /\ raw_ops[q][2].base_point = FrModulus - padding_element
        /\ accumulator[q] = point_at_infinity
        /\ Len(ultra_ops[q][0]) = 2

\* Rows 2k and 2k+1 (counted from 0) of the columns cols hold tuple.
HoldsTuple(cols, k, tuple) ==
    /\ cols[0][2 * k + 1] = tuple.op   /\ cols[0][2 * k + 2] = 0
    /\ cols[1][2 * k + 1] = tuple.x_lo /\ cols[1][2 * k + 2] = tuple.y_hi
    /\ cols[2][2 * k + 1] = tuple.x_hi /\ cols[2][2 * k + 2] = tuple.z_1
    /\ cols[3][2 * k + 1] = tuple.y_lo /\ cols[3][2 * k + 2] = tuple.z_2

\* C16: populate_ultra_ops(tuple) appends exactly two entries to each
\* column: (op, 0) to column 0, (x_lo, y_hi) to column 1, (x_hi, z_1) to
\* column 2, (y_lo, z_2) to column 3; so the tuple sits in the rows 2k and
\* 2k+1 of its operation index k, and every pair of rows of every
\* transcript holds one populated tuple in that layout.
PopulateLayout ==
    [][\A q \in Queues, tuple \in UltraOpInputs :
          populate_ultra_ops(q, tuple) =>
              /\ ultra_ops'[q][0] = ultra_ops[q][0] \o <<tuple.op, 0>>
              /\ ultra_ops'[q][1] = ultra_ops[q][1] \o <<tuple.x_lo, tuple.y_hi>>
              /\ ultra_ops'[q][2] = ultra_ops[q][2] \o <<tuple.x_hi, tuple.z_1>>
              /\ ultra_ops'[q][3] = ultra_ops[q][3] \o <<tuple.y_lo, tuple.z_2>>
              /\ HoldsTuple(ultra_ops'[q], Len(ultra_ops[q][0]) \div 2, tuple)
              /\ \A o \in Queues :
                    \A k \in 0 .. (Len(ultra_ops'[o][0]) \div 2) - 1 :
                        \E t \in UltraOpInputs : HoldsTuple(ultra_ops'[o], k, t)]_vars

\* A queue populated twice with different tuples and touched by nothing
\* else: the second tuple sits in rows 2 and 3.
PopulateLayoutWitness ==
    \E q \in Queues : \E o \in Queues \ {q} :
        /\ Len(ultra_ops[q][0]) = 4
        /\ \E t, u \in UltraOpInputs :
              /\ t # u
              /\ HoldsTuple(ultra_ops[q], 0, t)
              /\ HoldsTuple(ultra_ops[q], 1, u)
        /\ current_ultra_ops_size[q] = 0
        /\ previous_ultra_ops_size[q] = 0
        /\ Len(ultra_ops[o][0]) = 0
        /\ raw_ops[q] = <<>>

\* C17: on a queue that starts empty and is never prepended or swapped,
\* after N calls of populate_ultra_ops each of the four columns has length
\* exactly 2N.
ColumnsCountPopulates ==
    \A q \in Queues :
        populated[q] # Grafted =>
            \A i \in Columns : Len(ultra_ops[q][i]) = 2 * populated[q]

\* A queue of its own entries populated as often as the exploration
\* allows, next to one that was never populated.
ColumnsCountPopulatesWitness ==
    \E q \in Queues : \E o \in Queues \ {q} :
        /\ populated[q] = MaxOps
        /\ Len(ultra_ops[q][3]) = 2 * MaxOps
        /\ populated[o] = 0
        /\ Len(ultra_ops[o][3]) = 0

\* C18: get_aggregate_transcript() returns each of the four columns whole,
\* get_previous_aggregate_transcript() returns exactly the first
\* previous_ultra_ops_size entries of each column, and on a queue on which
\* neither set_size_data nor prepend_previous_queue was ever called that
\* window is empty for all four columns.
TranscriptWindows ==
    \A q \in Queues : \A i \in Columns :
        /\ get_aggregate_transcript(q)[i] = ultra_ops[q][i]
        /\ previous_ultra_ops_size[q] <= Len(ultra_ops[q][i])
        /\ get_previous_aggregate_transcript(q)[i]
              = SubSeq(ultra_ops[q][i], 1, previous_ultra_ops_size[q])
        /\ q \notin windowed => get_previous_aggregate_transcript(q)[i] = <<>>

\* C19: wrong call order: when B.set_size_data() was called before
\* B.prepend_previous_queue(A), A another queue that holds wire operations,
\* B.get_previous_aggregate_transcript() is afterwards not A's full
\* transcript.
WrongOrderLosesPrevious ==
    [][\A q \in Queues : \A previous \in Queues \ {q} :
          /\ prepend_previous_queue(q, previous)
          /\ q \in resized
          /\ Len(ultra_ops[previous][0]) > 0
          => get_previous_aggregate_transcript(q)'
                # get_aggregate_transcript(previous)']_vars

\* C19, amended: when B.set_size_data() was called before
\* B.prepend_previous_queue(A), B.get_previous_aggregate_transcript() is
\* afterwards A's full transcript exactly when B.previous_ultra_ops_size
\* was zero before the prepend, as it is after a single set_size_data();
\* otherwise its window is longer than A's transcript.
WrongOrderPreviousWindow ==
    [][\A q, previous \in Queues :
          prepend_previous_queue(q, previous) /\ q \in resized =>
              /\ get_previous_aggregate_transcript(q)'
                    = get_aggregate_transcript(previous)'
                 <=> previous_ultra_ops_size[q] = 0
              /\ \A i \in Columns :
                    Len(get_previous_aggregate_transcript(q)'[i])
                       = previous_ultra_ops_size[q]
                            + Len(get_aggregate_transcript(previous)'[i])]_vars

\* A queue that was populated and sized once and then had the other
\* queue's two rows prepended: its window is the other queue's transcript.
WrongOrderPreviousWindowWitness ==
    \E q \in Queues : \E previous \in Queues \ {q} :
        /\ q \notin resized
        /\ Len(ultra_ops[previous][0]) = 2
        /\ Len(ultra_ops[q][0]) = 4
        /\ previous_ultra_ops_size[q] = 2
        /\ current_ultra_ops_size[q] = 4
        /\ get_previous_aggregate_transcript(q) = get_aggregate_transcript(previous)
        /\ ultra_ops[q][0][3] # ultra_ops[q][0][1]

\* C20: add_accumulate(P) sets the accumulator to the old accumulator + P
\* and appends exactly one record: add set, mul, eq and reset clear,
\* base_point P, and z1, z2 and mul_scalar_full zero.
AddAccumulateEffect ==
    [][\A q \in Queues, to_add \in PointInputs :
          add_accumulate(q, to_add) =>
              /\ get_accumulator(q)' = PointAdd(get_accumulator(q), to_add)
              /\ Len(raw_ops'[q]) = Len(raw_ops[q]) + 1
              /\ SubSeq(raw_ops'[q], 1, Len(raw_ops[q])) = raw_ops[q]
              /\ LET record == raw_ops'[q][Len(raw_ops'[q])]
                 IN  /\ record.add
                     /\ ~record.mul /\ ~record.eq /\ ~record.reset
                     /\ record.base_point = to_add
                     /\ record.z1 = 0 /\ record.z2 = 0
                     /\ record.mul_scalar_full = 0]_vars

\* A queue on which add_accumulate was called twice: the second call added
\* to an accumulator that was not the point at infinity.
AddAccumulateEffectWitness ==
    \E q \in Queues :
        /\ Len(raw_ops[q]) = 2
        /\ raw_ops[q][1].add
        /\ raw_ops[q][2].add
        /\ accumulator[q]
              = PointAdd(raw_ops[q][1].base_point, raw_ops[q][2].base_point)
        /\ accumulator[q] # raw_ops[q][2].base_point

\* C21: mul_accumulate(P, s) sets the accumulator to the old accumulator
\* + s*P and appends exactly one record: mul set, add, eq and reset clear,
\* base_point P, mul_scalar_full s, and z1, z2 the endomorphism split of s.
MulAccumulateEffect ==
    [][\A q \in Queues, to_mul \in AccumulatePoints, scalar \in AccumulateScalars :
          mul_accumulate(q, to_mul, scalar) =>
              /\ get_accumulator(q)'
                    = PointAdd(get_accumulator(q),
                               Times(from_montgomery_form(scalar), to_mul))
              /\ Len(raw_ops'[q]) = Len(raw_ops[q]) + 1
              /\ SubSeq(raw_ops'[q], 1, Len(raw_ops[q])) = raw_ops[q]
              /\ LET record == raw_ops'[q][Len(raw_ops'[q])]
                 IN  /\ record.mul
                     /\ ~record.add /\ ~record.eq /\ ~record.reset
                     /\ record.base_point = to_mul
                     /\ record.mul_scalar_full = scalar
                     /\ from_montgomery_form(record.z1)
                           = EndoSplitK1(from_montgomery_form(scalar))
                     /\ from_montgomery_form(record.z2)
                           = EndoSplitK2(from_montgomery_form(scalar))]_vars

\* A queue on which mul_accumulate was called twice, the second time on an
\* accumulator away from the point at infinity and with a scalar whose
\* split has two nonzero halves.
MulAccumulateEffectWitness ==
    \E q \in Queues :
        /\ Len(raw_ops[q]) = 2
        /\ raw_ops[q][1].mul
        /\ raw_ops[q][2].mul
        /\ raw_ops[q][2].z1 # 0
        /\ raw_ops[q][2].z2 # 0
        /\ raw_ops[q][2].base_point # point_at_infinity
        /\ accumulator[q] # point_at_infinity
        /\ accumulator[q]
              # PointMul(raw_ops[q][2].base_point, raw_ops[q][2].mul_scalar_full)

\* C22: empty_row() appends exactly one record with all four flags false,
\* base_point the point at infinity and all scalars zero, and leaves the
\* accumulator, the ultra_ops columns, the sizes and the commitments
\* unchanged.
EmptyRowEffect ==
    [][\A q \in Queues :
          empty_row(q) =>
              /\ Len(raw_ops'[q]) = Len(raw_ops[q]) + 1
              /\ SubSeq(raw_ops'[q], 1, Len(raw_ops[q])) = raw_ops[q]
              /\ LET record == raw_ops'[q][Len(raw_ops'[q])]
                 IN  /\ ~record.add /\ ~record.mul
                     /\ ~record.eq /\ ~record.reset
                     /\ record.base_point = point_at_infinity
                     /\ record.z1 = 0 /\ record.z2 = 0
                     /\ record.mul_scalar_full = 0
              /\ get_accumulator(q)' = get_accumulator(q)
              /\ \A i \in Columns : ultra_ops'[q][i] = ultra_ops[q][i]
              /\ current_ultra_ops_size'[q] = current_ultra_ops_size[q]
              /\ previous_ultra_ops_size'[q] = previous_ultra_ops_size[q]
              /\ ultra_ops_commitments'[q] = ultra_ops_commitments[q]]_vars

\* A queue with an empty row after an ADD record: the accumulator still
\* holds the point added, beside columns and sizes that are set.
EmptyRowEffectWitness ==
    \E q \in Queues :
        /\ Len(raw_ops[q]) = 2
        /\ raw_ops[q][1].add
        /\ raw_ops[q][2] = EmptyRecord
        /\ accumulator[q] = raw_ops[q][1].base_point
        /\ accumulator[q] # point_at_infinity
        /\ Len(ultra_ops[q][0]) = 2
        /\ current_ultra_ops_size[q] = 2

\* C23: add_accumulate, mul_accumulate, eq and append_nonzero_ops never
\* change the wire transcript: the four ultra_ops columns, both size
\* counters and the commitments are afterwards what they were; raw_ops
\* grows.
RawCallsKeepWire ==
    [][\A q \in Queues :
          \/ \E to_add \in PointInputs : add_accumulate(q, to_add)
          \/ \E to_mul \in PointInputs, scalar \in ScalarInputs :
                mul_accumulate(q, to_mul, scalar)
          \/ eq(q)
          \/ append_nonzero_ops(q)
          => /\ \A o \in Queues :
                   /\ \A i \in Columns : ultra_ops'[o][i] = ultra_ops[o][i]
                   /\ current_ultra_ops_size'[o] = current_ultra_ops_size[o]
                   /\ previous_ultra_ops_size'[o] = previous_ultra_ops_size[o]
                   /\ ultra_ops_commitments'[o] = ultra_ops_commitments[o]
             /\ Len(raw_ops'[q]) > Len(raw_ops[q])]_vars

\* A queue whose columns hold an operation that no set_size_data has
\* counted yet, and on which mul_accumulate and add_accumulate were
\* called: the counters are still zero.
RawCallsKeepWireWitness ==
    \E q \in Queues :
        /\ Len(ultra_ops[q][0]) = 2
        /\ current_ultra_ops_size[q] = 0
        /\ previous_ultra_ops_size[q] = 0
        /\ Len(raw_ops[q]) = 2
        /\ raw_ops[q][1].mul
        /\ raw_ops[q][2].add
        /\ accumulator[q] # point_at_infinity

\* C24: populate_ultra_ops is a pure append to the wire transcript: it
\* leaves the accumulator, raw_ops, both size counters and the commitments
\* unchanged, and every entry already in a column stays as it is.
PopulateIsPureAppend ==
    [][\A q \in Queues, tuple \in UltraOpInputs :
          populate_ultra_ops(q, tuple) =>
              /\ \A i \in Columns :
                    /\ Len(ultra_ops'[q][i]) > Len(ultra_ops[q][i])
                    /\ SubSeq(ultra_ops'[q][i], 1, Len(ultra_ops[q][i]))
                          = ultra_ops[q][i]
              /\ \A o \in Queues \ {q} : ultra_ops'[o] = ultra_ops[o]
              /\ \A o \in Queues :
                    /\ get_accumulator(o)' = get_accumulator(o)
                    /\ raw_ops'[o] = raw_ops[o]
                    /\ current_ultra_ops_size'[o] = current_ultra_ops_size[o]
                    /\ previous_ultra_ops_size'[o] = previous_ultra_ops_size[o]
                    /\ ultra_ops_commitments'[o] = ultra_ops_commitments[o]]_vars

\* A queue populated again after set_size_data counted its first
\* operation, with a record in its log: the counter still says 2, the
\* first two rows are in place, the accumulator holds the point added.
PopulateIsPureAppendWitness ==
    \E q \in Queues :
        /\ Len(ultra_ops[q][0]) = 4
        /\ current_ultra_ops_size[q] = 2
        /\ previous_ultra_ops_size[q] = 0
        /\ ultra_ops[q][0][3] # ultra_ops[q][0][1]
        /\ Len(raw_ops[q]) = 1
        /\ raw_ops[q][1].add
        /\ accumulator[q] = raw_ops[q][1].base_point

\* The log old sits in the log new as one unbroken run of records.
RunOf(old, new) ==
    \E k \in 0 .. (Len(new) - Len(old)) :
        SubSeq(new, k + 1, k + Len(old)) = old

\* C25: raw_ops is append-only and grows monotonically: no operation on a
\* queue, prepend_previous_queue and swap included, decreases the length
\* of its raw_ops or alters or removes a record that is already in it.
RawOpsAppendOnly ==
    [][\A q \in Queues :
          /\ Len(raw_ops'[q]) >= Len(raw_ops[q])
          /\ RunOf(raw_ops[q], raw_ops'[q])]_vars

\* C25, amended: every operation but swap keeps the records of raw_ops:
\* prepend_previous_queue keeps them, in order, as the end of the new log,
\* every other method as its start; swap replaces the log of each of its
\* two queues by the log of the other.
RawOpsKeptButBySwap ==
    [][\A q \in Queues :
          \/ \E o \in Queues \ {q} :
                /\ swap(q, o) \/ swap(o, q)
                /\ raw_ops'[q] = raw_ops[o]
                /\ raw_ops'[o] = raw_ops[q]
          \/ /\ Len(raw_ops'[q]) >= Len(raw_ops[q])
             /\ IF \E previous \in Queues : prepend_previous_queue(q, previous)
                THEN SubSeq(raw_ops'[q],
                            Len(raw_ops'[q]) - Len(raw_ops[q]) + 1,
                            Len(raw_ops'[q])) = raw_ops[q]
                ELSE SubSeq(raw_ops'[q], 1, Len(raw_ops[q])) = raw_ops[q]]_vars

\* A queue that logged an ADD record of its own and then had the other
\* queue's MUL record prepended: the ADD record is now the second one.
RawOpsKeptButBySwapWitness ==
    \E q \in Queues : \E previous \in Queues \ {q} :
        /\ Len(raw_ops[previous]) = 1
        /\ raw_ops[previous][1].mul
        /\ Len(raw_ops[q]) = 2
        /\ raw_ops[q][1] = raw_ops[previous][1]
        /\ raw_ops[q][2].add
        /\ accumulator[q] = raw_ops[q][2].base_point

\* C26: every record in raw_ops, in every reachable state, has one of four
\* flag combinations: add only, mul only, eq together with reset, or no
\* flag; reset is true exactly when eq is, and z1, z2 and mul_scalar_full
\* are zero in every record whose mul flag is false.
RecordsWellFormed ==
    \A q \in Queues : \A k \in 1 .. Len(raw_ops[q]) :
        LET record == raw_ops[q][k]
        IN  /\ \/ record.add /\ ~record.mul /\ ~record.eq /\ ~record.reset
               \/ ~record.add /\ record.mul /\ ~record.eq /\ ~record.reset
               \/ ~record.add /\ ~record.mul /\ record.eq /\ record.reset
               \/ ~record.add /\ ~record.mul /\ ~record.eq /\ ~record.reset
            /\ record.reset <=> record.eq
            /\ ~record.mul =>
                  /\ record.z1 = 0
                  /\ record.z2 = 0
                  /\ record.mul_scalar_full = 0

\* A queue whose log, partly prepended from the other queue, holds a MUL
\* record with both halves nonzero, an EQUALITY record and an empty one.
RecordsWellFormedWitness ==
    \E q \in Queues : \E previous \in Queues \ {q} :
        /\ Len(raw_ops[q]) = 3
        /\ raw_ops[q][1].mul
        /\ raw_ops[q][1].z1 # 0
        /\ raw_ops[q][1].z2 # 0
        /\ raw_ops[q][2].eq
        /\ raw_ops[q][3] = EmptyRecord
        /\ accumulator[q] # point_at_infinity

\* C27: commitments are only passed through: ultra_ops_commitments of a
\* queue changes only in set_commitment_data (to the given array),
\* prepend_previous_queue (to the predecessor's array) and swap (to the other
\* queue's array); add_accumulate, mul_accumulate, eq, empty_row,
\* append_nonzero_ops, populate_ultra_ops and set_size_data leave it
\* unchanged.
CommitmentsPassedThrough ==
    [][/\ \A q \in Queues :
            /\ \A commitments \in CommitmentInputs :
                  \/ ultra_ops_commitments'[q] = commitments
                  \/ ~set_commitment_data(q, commitments)
            /\ \A previous \in Queues :
                  \/ ultra_ops_commitments'[q] = ultra_ops_commitments[previous]
                  \/ ~prepend_previous_queue(q, previous)
            /\ \A o \in Queues :
                  \/ ultra_ops_commitments'[q] = ultra_ops_commitments[o]
                  \/ ~(swap(q, o) \/ swap(o, q))
            /\ ultra_ops_commitments'[q] # ultra_ops_commitments[q]
                  => \/ \E commitments \in CommitmentInputs :
                           set_commitment_data(q, commitments)
                     \/ \E previous \in Queues \ {q} :
                           prepend_previous_queue(q, previous)
                     \/ \E o \in Queues \ {q} : swap(q, o) \/ swap(o, q)
       /\ \/ UNCHANGED ultra_ops_commitments
          \/ ~(\/ \E q \in Queues, to_add \in PointInputs : add_accumulate(q, to_add)
               \/ \E q \in Queues, to_mul \in PointInputs, scalar \in ScalarInputs :
                     mul_accumulate(q, to_mul, scalar)
               \/ \E q \in Queues : eq(q)
               \/ \E q \in Queues : empty_row(q)
               \/ \E q \in Queues : append_nonzero_ops(q)
               \/ \E q \in Queues, tuple \in UltraOpInputs :
                     populate_ultra_ops(q, tuple)
               \/ \E q \in Queues : set_size_data(q))]_vars

\* Two queues that hold different commitments while one of them holds a
\* log, a populated wire transcript and recorded sizes.
CommitmentsPassedThroughWitness ==
    \E q \in Queues : \E o \in Queues \ {q} :
        /\ ultra_ops_commitments[q] # ultra_ops_commitments[o]
        /\ Len(raw_ops[q]) = 2
        /\ raw_ops[q][1].mul
        /\ raw_ops[q][2].eq
        /\ Len(ultra_ops[q][0]) = 2
        /\ current_ultra_ops_size[q] = 2
        /\ previous_ultra_ops_size[q] = 0

(***************************************************************************)
(* mul_accumulate alone, called with every scalar of the field.             *)
(***************************************************************************)
NextScalars ==
    \E q \in Queues, to_mul \in PointInputs, scalar \in Fr :
        mul_accumulate(q, to_mul, scalar) /\ NoHistory

SpecScalars == Init /\ [][NextScalars]_vars

\* C28: endomorphism round trip: for every scalar s, the pair (z1, z2) that
\* mul_accumulate stores in the raw record recombines, by the split relation
\* s = z1 + z2 * endomorphism_constant, to the scalar stored in
\* mul_scalar_full (all three taken as the field elements they denote).
EndomorphismRoundTrip ==
    \A q \in Queues : \A k \in 1 .. Len(raw_ops[q]) :
        LET record == raw_ops[q][k]
        IN  record.mul =>
              (from_montgomery_form(record.z1)
                 + from_montgomery_form(record.z2) * EndoLambda) % FrModulus
                = from_montgomery_form(record.mul_scalar_full)

\* A log of three MUL records with three different scalars, one of them
\* zero and one with both halves nonzero.
EndomorphismRoundTripWitness ==
    \E q \in Queues :
        /\ Len(raw_ops[q]) = 3
        /\ \A k \in 1 .. 3 : raw_ops[q][k].mul
        /\ raw_ops[q][1].mul_scalar_full = FrLiteral(0)
        /\ raw_ops[q][2].mul_scalar_full = FrNeg(FrOne)
        /\ raw_ops[q][2].z1 # 0
        /\ raw_ops[q][2].z2 # 0
        /\ raw_ops[q][3].mul_scalar_full = FrLiteral(4)
        /\ raw_ops[q][3].z2 # 0

(***************************************************************************)
(* MemoryArchiverStore: the L1 to L2 message operations.                    *)
(***************************************************************************)
\* How often entryKey occurs in a list of entry keys.
Occurrences(entryKeys, entryKey) ==
    Cardinality({ i \in 1 .. Len(entryKeys) : entryKeys[i] = entryKey })

\* L1ToL2MessageStore.addMessage for each key of the list: a key not yet
\* stored is stored with count 1, a stored key has its count raised.
AddedMessages(store, entryKeys) ==
    [entryKey \in EntryKeys |-> store[entryKey] + Occurrences(entryKeys, entryKey)]

\* PendingL1ToL2MessageStore.removeMessage for each key of the list: a
\* stored key has its count lowered and is deleted at count 1, a key not
\* stored is skipped.
RemovedMessages(store, entryKeys) ==
    [entryKey \in EntryKeys |->
        IF store[entryKey] > Occurrences(entryKeys, entryKey)
        THEN store[entryKey] - Occurrences(entryKeys, entryKey)
        ELSE 0]

\* The guard that takes an L1 block number strictly below the last one only.
Stale_Strict(l1BlockNumber, last) == l1BlockNumber < last

\* The guard of the three message operations.
Stale(l1BlockNumber, last) == l1BlockNumber <= last

\* addNewL1ToL2Messages that stores the messages without recording the
\* block number.
addNewL1ToL2Messages_Unrecorded(messages, lastMessageL1BlockNumber) ==
    IF Stale(lastMessageL1BlockNumber, lastL1BlockNewMessages)
    THEN /\ resolved' = Returned("addNewL1ToL2Messages", FALSE)
         /\ UNCHANGED messageVars
    ELSE /\ newL1ToL2Messages' = newL1ToL2Messages \o messages
         /\ resolved' = Returned("addNewL1ToL2Messages", TRUE)
         /\ UNCHANGED <<pendingL1ToL2Messages, lastL1BlockNewMessages,
                        lastL1BlockAddedMessages, lastL1BlockCancelledMessages>>

addNewL1ToL2Messages(messages, lastMessageL1BlockNumber) ==
    IF Stale(lastMessageL1BlockNumber, lastL1BlockNewMessages)
    THEN /\ resolved' = Returned("addNewL1ToL2Messages", FALSE)
         /\ UNCHANGED messageVars
    ELSE /\ lastL1BlockNewMessages' = lastMessageL1BlockNumber
         /\ newL1ToL2Messages' = newL1ToL2Messages \o messages
         /\ resolved' = Returned("addNewL1ToL2Messages", TRUE)
         /\ UNCHANGED <<pendingL1ToL2Messages, lastL1BlockAddedMessages,
                        lastL1BlockCancelledMessages>>

addPendingL1ToL2Messages(messages, l1BlockNumber) ==
    IF Stale(l1BlockNumber, lastL1BlockAddedMessages)
    THEN /\ resolved' = Returned("addPendingL1ToL2Messages", FALSE)
         /\ UNCHANGED messageVars
    ELSE /\ lastL1BlockAddedMessages' = l1BlockNumber
         /\ pendingL1ToL2Messages' = AddedMessages(pendingL1ToL2Messages, messages)
         /\ resolved' = Returned("addPendingL1ToL2Messages", TRUE)
         /\ UNCHANGED <<newL1ToL2Messages, lastL1BlockNewMessages,
                        lastL1BlockCancelledMessages>>

cancelPendingL1ToL2EntryKeys(messages, l1BlockNumber) ==
    IF Stale(l1BlockNumber, lastL1BlockCancelledMessages)
    THEN /\ resolved' = Returned("cancelPendingL1ToL2EntryKeys", FALSE)
         /\ UNCHANGED messageVars
    ELSE /\ lastL1BlockCancelledMessages' = l1BlockNumber
         /\ pendingL1ToL2Messages' = RemovedMessages(pendingL1ToL2Messages, messages)
         /\ resolved' = Returned("cancelPendingL1ToL2EntryKeys", TRUE)
         /\ UNCHANGED <<newL1ToL2Messages, lastL1BlockNewMessages,
                        lastL1BlockAddedMessages>>

\* A call of a message operation leaves the queues and the logs alone.
MessageCall == UNCHANGED <<queueVars, logVars>>

NextMessages ==
    \/ \E messages \in LeafInputs, lastMessageL1BlockNumber \in L1BlockNumbers :
          addNewL1ToL2Messages(messages, lastMessageL1BlockNumber) /\ MessageCall
    \/ \E messages \in EntryKeyInputs, l1BlockNumber \in L1BlockNumbers :
          addPendingL1ToL2Messages(messages, l1BlockNumber) /\ MessageCall
    \/ \E messages \in EntryKeyInputs, l1BlockNumber \in L1BlockNumbers :
          cancelPendingL1ToL2EntryKeys(messages, l1BlockNumber) /\ MessageCall

SpecMessages == InitMessages /\ [][NextMessages]_vars

Max(a, b) == IF a >= b THEN a ELSE b
Min(a, b) == IF a <= b THEN a ELSE b

\* An L2Block by its number and the hashes of its two transactions; the
\* L2BlockContext made of it answers block.number and getTxHash(i).
L2Block(number) == [number |-> number, txHashes |-> <<2 * number - 1, 2 * number>>]

\* The lists of consecutive blocks handed to addBlocks.
BlockInputs ==
    { <<L2Block(n)>> : n \in 1 .. MaxBlocks }
        \cup { <<L2Block(n), L2Block(n + 1)>> : n \in 1 .. (MaxBlocks - 1) }

\* b.getTxs() of each block, flattened.
RECURSIVE TxsOf(_)
TxsOf(blocks) ==
    IF blocks = <<>> THEN <<>> ELSE blocks[1].txHashes \o TxsOf(Tail(blocks))

\* An UnencryptedL2Log, as UnencryptedL2Log.fromBuffer reads it.
UnencryptedL2Log(contractAddress, selector) ==
    [contractAddress |-> contractAddress, selector |-> selector]

\* L2BlockL2Logs: per transaction (txLogs), the logs that unrollLogs gives.
UnencryptedLogsInputs ==
    { <<>>,
      << <<UnencryptedL2Log(1, 1)>> >>,
      << <<UnencryptedL2Log(1, 1), UnencryptedL2Log(2, 1)>>,
         <<UnencryptedL2Log(1, 2)>> >> }

EncryptedLogsInputs == { <<>> }

\* array[index] = element on a JavaScript array: the array grows to hold the
\* index, and the slots in between are left undefined.
ArraySet(array, index, element) ==
    [k \in 1 .. Max(Len(array), index + 1) |->
        IF k = index + 1 THEN element
        ELSE IF k <= Len(array) THEN array[k]
        ELSE Undefined]

addBlocks(blocks) ==
    /\ Len(l2BlockContexts) + Len(blocks) <= MaxBlocks
    /\ l2BlockContexts' = l2BlockContexts \o blocks
    /\ txEffects' = txEffects \o TxsOf(blocks)
    /\ resolved' = Returned("addBlocks", TRUE)
    /\ UNCHANGED <<maxLogs, encryptedLogsPerBlock, unencryptedLogsPerBlock>>

addLogs(encryptedLogs, unencryptedLogs, blockNumber) ==
    /\ encryptedLogsPerBlock' =
          IF encryptedLogs # Undefined
          THEN ArraySet(encryptedLogsPerBlock, blockNumber - INITIAL_L2_BLOCK_NUM,
                        encryptedLogs)
          ELSE encryptedLogsPerBlock
    /\ unencryptedLogsPerBlock' =
          IF unencryptedLogs # Undefined
          THEN ArraySet(unencryptedLogsPerBlock, blockNumber - INITIAL_L2_BLOCK_NUM,
                        unencryptedLogs)
          ELSE unencryptedLogsPerBlock
    /\ resolved' = Returned("addLogs", TRUE)
    /\ UNCHANGED <<maxLogs, l2BlockContexts, txEffects>>

\* LogId and LogFilter; a field left out of the filter is undefined.
LogId(blockNumber, txIndex, logIndex) ==
    [blockNumber |-> blockNumber, txIndex |-> txIndex, logIndex |-> logIndex]

LogFilter(txHash, fromBlock, toBlock, afterLog, contractAddress, selector) ==
    [txHash |-> txHash, fromBlock |-> fromBlock, toBlock |-> toBlock,
     afterLog |-> afterLog, contractAddress |-> contractAddress,
     selector |-> selector]

Optional(S) == {Undefined} \cup { Defined(v) : v \in S }

FilterInputs ==
    { LogFilter(txHash, fromBlock, toBlock, afterLog, contractAddress, selector) :
        txHash \in Optional({1}),
        fromBlock \in Optional({MaxBlocks}),
        toBlock \in Optional({MaxBlocks}),
        afterLog \in Optional({ LogId(1, 0, 0), LogId(1, 0, 1), LogId(1, 1, 0),
                                 LogId(MaxBlocks, 0, 0) }),
        contractAddress \in Optional({1}),
        selector \in Optional({1}) }

\* GetUnencryptedLogsResponse, and the call ending in a TypeError instead
\* (a property read of an undefined array slot).
Response(logs, maxLogsHit) == [threw |-> FALSE, logs |-> logs, maxLogsHit |-> maxLogsHit]
TypeError == [threw |-> TRUE, logs |-> <<>>, maxLogsHit |-> FALSE]

ExtendedUnencryptedL2Log(id, log) == [id |-> id, log |-> log]

\* The scan started at the afterLog entry itself instead of the next one.
ScanStart_Inclusive(filter) ==
    IF filter.afterLog # Undefined
    THEN IF \/ filter.fromBlock = Undefined
            \/ ValueOf(filter.fromBlock) <= ValueOf(filter.afterLog).blockNumber
         THEN [fromBlockIndex |-> ValueOf(filter.afterLog).blockNumber - INITIAL_L2_BLOCK_NUM,
               txIndexInBlock |-> ValueOf(filter.afterLog).txIndex,
               logIndexInTx |-> ValueOf(filter.afterLog).logIndex,
               txHash |-> Undefined]
         ELSE [fromBlockIndex |-> ValueOf(filter.fromBlock) - INITIAL_L2_BLOCK_NUM,
               txIndexInBlock |-> 0, logIndexInTx |-> 0, txHash |-> Undefined]
    ELSE [fromBlockIndex |-> IF filter.fromBlock # Undefined
                             THEN ValueOf(filter.fromBlock) - INITIAL_L2_BLOCK_NUM
                             ELSE 0,
          txIndexInBlock |-> 0, logIndexInTx |-> 0, txHash |-> filter.txHash]

\* Where the scan starts, and the tx hash it filters by.
ScanStart(filter) ==
    IF filter.afterLog # Undefined
    THEN IF \/ filter.fromBlock = Undefined
            \/ ValueOf(filter.fromBlock) <= ValueOf(filter.afterLog).blockNumber
         THEN [fromBlockIndex |-> ValueOf(filter.afterLog).blockNumber - INITIAL_L2_BLOCK_NUM,
               txIndexInBlock |-> ValueOf(filter.afterLog).txIndex,
               logIndexInTx |-> ValueOf(filter.afterLog).logIndex + 1,
               txHash |-> Undefined]
         ELSE [fromBlockIndex |-> ValueOf(filter.fromBlock) - INITIAL_L2_BLOCK_NUM,
               txIndexInBlock |-> 0, logIndexInTx |-> 0, txHash |-> Undefined]
    ELSE [fromBlockIndex |-> IF filter.fromBlock # Undefined
                             THEN ValueOf(filter.fromBlock) - INITIAL_L2_BLOCK_NUM
                             ELSE 0,
          txIndexInBlock |-> 0, logIndexInTx |-> 0, txHash |-> filter.txHash]

\* The block index the scan stops before.
ScanEnd(filter) ==
    Min(IF filter.toBlock # Undefined
        THEN ValueOf(filter.toBlock) - INITIAL_L2_BLOCK_NUM
        ELSE Len(unencryptedLogsPerBlock),
        Len(unencryptedLogsPerBlock))

\* The test made after a log is pushed.
MaxLogsHit(logs) == Len(logs) = maxLogs

\* The three nested loops from block index b, transaction t and log l on
\* (all counted from 0), with the logs collected so far.
RECURSIVE Collect(_, _, _, _, _, _, _)
Collect(filter, txHash, toBlockIndex, b, t, l, logs) ==
    IF b >= toBlockIndex THEN Response(logs, FALSE)
    ELSE IF unencryptedLogsPerBlock[b + 1] = Undefined THEN TypeError
    ELSE LET blockLogs == ValueOf(unencryptedLogsPerBlock[b + 1])
             blockContext == IF b + 1 <= Len(l2BlockContexts)
                             THEN Defined(l2BlockContexts[b + 1])
                             ELSE Undefined
         IN  IF t >= Len(blockLogs)
             THEN Collect(filter, txHash, toBlockIndex, b + 1, 0, l, logs)
             ELSE IF l >= Len(blockLogs[t + 1])
             THEN Collect(filter, txHash, toBlockIndex, b, t + 1, 0, logs)
             ELSE LET log == blockLogs[t + 1][l + 1]
                  IN  IF txHash # Undefined /\ blockContext = Undefined THEN TypeError
                      ELSE IF /\ \/ txHash = Undefined
                                 \/ ValueOf(blockContext).txHashes[t + 1] = ValueOf(txHash)
                              /\ \/ filter.contractAddress = Undefined
                                 \/ log.contractAddress = ValueOf(filter.contractAddress)
                              /\ \/ filter.selector = Undefined
                                 \/ log.selector = ValueOf(filter.selector)
                      THEN IF blockContext = Undefined THEN TypeError
                           ELSE LET pushed ==
                                      Append(logs,
                                             ExtendedUnencryptedL2Log(
                                                 LogId(ValueOf(blockContext).number, t, l),
                                                 log))
                                IN  IF MaxLogsHit(pushed)
                                    THEN Response(pushed, TRUE)
                                    ELSE Collect(filter, txHash, toBlockIndex,
                                                 b, t, l + 1, pushed)
                      ELSE Collect(filter, txHash, toBlockIndex, b, t, l + 1, logs)

\* What getUnencryptedLogs(filter) gives on the store as it is.
UnencryptedLogs(filter) ==
    LET start == ScanStart(filter)
        fromBlockIndex == Max(start.fromBlockIndex, 0)
        toBlockIndex == ScanEnd(filter)
    IN  IF \/ fromBlockIndex > Len(unencryptedLogsPerBlock)
           \/ toBlockIndex < fromBlockIndex
           \/ toBlockIndex <= 0
        THEN Response(<<>>, FALSE)
        ELSE Collect(filter, start.txHash, toBlockIndex, fromBlockIndex,
                     start.txIndexInBlock, start.logIndexInTx, <<>>)

getUnencryptedLogs(filter) ==
    /\ resolved' = Returned("getUnencryptedLogs", UnencryptedLogs(filter))
    /\ UNCHANGED logVars

\* A call of a block or log operation leaves the queues and the messages
\* alone.
LogCall == UNCHANGED <<queueVars, messageVars>>

NextLogs ==
    \/ \E blocks \in BlockInputs : addBlocks(blocks) /\ LogCall
    \/ \E encryptedLogs \in Optional(EncryptedLogsInputs),
          unencryptedLogs \in Optional(UnencryptedLogsInputs),
          blockNumber \in 1 .. MaxBlocks :
          addLogs(encryptedLogs, unencryptedLogs, blockNumber) /\ LogCall
    \/ \E filter \in FilterInputs : getUnencryptedLogs(filter) /\ LogCall

SpecLogs == InitStore /\ [][NextLogs]_vars

\* C30: getUnencryptedLogs never returns more than maxLogs logs in one call,
\* for every constructor value of maxLogs and every filter; maxLogsHit is
\* true exactly when the call stopped because the number of collected logs
\* reached maxLogs.
LogsWithinMaxLogs ==
    (resolved.call = "getUnencryptedLogs" /\ ~resolved.value.threw) =>
        /\ Len(resolved.value.logs) <= maxLogs
        /\ resolved.value.maxLogsHit <=>
              (resolved.value.logs # <<>> /\ Len(resolved.value.logs) = maxLogs)

\* C32: the window of get_previous_aggregate_transcript never reaches past
\* the end of a column: in every reachable state, also before any
\* set_size_data and after any prepend_previous_queue or swap,
\* previous_ultra_ops_size <= ultra_ops[i].length for each of the four
\* columns i.
PreviousWindowWithinColumns ==
    \A q \in Queues : \A i \in Columns :
        previous_ultra_ops_size[q] <= Len(ultra_ops[q][i])

\* C33: for every argument of prepend_previous_queue, the queue itself
\* included, both size counters grow by exactly the number of entries the
\* call put in front of each ultra_ops column (column length after the call
\* minus column length before it).
PrependGrowsCountersByPrepended ==
    [][\A q, previous \in Queues :
          prepend_previous_queue(q, previous) =>
              \A i \in Columns :
                  /\ current_ultra_ops_size'[q] - current_ultra_ops_size[q]
                        = Len(ultra_ops'[q][i]) - Len(ultra_ops[q][i])
                  /\ previous_ultra_ops_size'[q] - previous_ultra_ops_size[q]
                        = Len(ultra_ops'[q][i]) - Len(ultra_ops[q][i])]_vars

(***************************************************************************)
(* SpecFinalized records in `resized` the queues whose last call that moved *)
(* sizes or columns around was set_size_data: prepend_previous_queue and    *)
(* swap end the record, appends keep it.                                    *)
(***************************************************************************)
NextFinalized ==
    \/ \E q \in Queues, to_add \in PointInputs :
          add_accumulate(q, to_add) /\ KeepsSizes
    \/ \E q \in Queues, to_mul \in PointInputs, scalar \in ScalarInputs :
          mul_accumulate(q, to_mul, scalar) /\ KeepsSizes
    \/ \E q \in Queues : eq(q) /\ KeepsSizes
    \/ \E q \in Queues : empty_row(q) /\ KeepsSizes
    \/ \E q \in Queues : append_nonzero_ops(q) /\ KeepsSizes
    \/ \E q \in Queues, tuple \in UltraOpInputs :
          populate_ultra_ops(q, tuple) /\ KeepsSizes
    \/ \E q \in Queues : set_size_data(q) /\ SetsSizes(q)
    \/ \E q \in Queues, commitments \in CommitmentInputs :
          set_commitment_data(q, commitments) /\ KeepsSizes
    \/ \E q \in Queues, previous \in Queues :
          prepend_previous_queue(q, previous) /\ MovesSizes({q})
    \/ \E lhs \in Queues, rhs \in Queues :
          swap(lhs, rhs) /\ MovesSizes({lhs, rhs})

SpecFinalized == Init /\ [][NextFinalized]_vars

\* populate_ultra_ops, add_accumulate, mul_accumulate, eq or empty_row on
\* queue q.
AppendCall(q) ==
    \/ \E tuple \in UltraOpInputs : populate_ultra_ops(q, tuple)
    \/ \E to_add \in PointInputs : add_accumulate(q, to_add)
    \/ \E to_mul \in PointInputs, scalar \in ScalarInputs :
          mul_accumulate(q, to_mul, scalar)
    \/ eq(q)
    \/ empty_row(q)

\* C34: a finalized prefix is stable under appends: after set_size_data(),
\* later populate_ultra_ops, add_accumulate, mul_accumulate, eq and empty_row
\* calls leave the first current_ultra_ops_size entries of every column, and
\* hence the contents of get_previous_aggregate_transcript(), unchanged
\* until the next set_size_data, prepend_previous_queue or swap.
FinalizedPrefixStable ==
    [][\A q \in resized :
          AppendCall(q) =>
              /\ \A i \in Columns :
                    Span(ultra_ops'[q][i], current_ultra_ops_size[q])
                       = Span(ultra_ops[q][i], current_ultra_ops_size[q])
              /\ get_previous_aggregate_transcript(q)'
                    = get_previous_aggregate_transcript(q)]_vars

\* The three message counters that getL1BlockNumber resolves to.
getL1BlockNumber ==
    [newMessages |-> lastL1BlockNewMessages,
     addedMessages |-> lastL1BlockAddedMessages,
     cancelledMessages |-> lastL1BlockCancelledMessages]

IndexedByBlockNumber ==
    /\ Len(unencryptedLogsPerBlock) <= Len(l2BlockContexts)
    /\ \A k \in 1 .. Len(l2BlockContexts) :
          l2BlockContexts[k].number - INITIAL_L2_BLOCK_NUM = k - 1
    /\ \A k \in 1 .. Len(unencryptedLogsPerBlock) :
          /\ unencryptedLogsPerBlock[k] # Undefined
          /\ Len(ValueOf(unencryptedLogsPerBlock[k])) <= Len(l2BlockContexts[k].txHashes)

\* The ids of the logs the store holds.
StoredLogIds ==
    UNION { UNION { { LogId(k - 1 + INITIAL_L2_BLOCK_NUM, t - 1, l - 1) :
                        l \in 1 .. Len(ValueOf(unencryptedLogsPerBlock[k])[t]) } :
                    t \in 1 .. Len(ValueOf(unencryptedLogsPerBlock[k])) } :
            k \in { j \in 1 .. Len(unencryptedLogsPerBlock) :
                       unencryptedLogsPerBlock[j] # Undefined } }

StoredLog(id) ==
    ValueOf(unencryptedLogsPerBlock[id.blockNumber - INITIAL_L2_BLOCK_NUM + 1])
        [id.txIndex + 1][id.logIndex + 1]

\* The order of logs: by block, then tx index, then log index.
LogIdBefore(a, b) ==
    \/ a.blockNumber < b.blockNumber
    \/ /\ a.blockNumber = b.blockNumber
       /\ \/ a.txIndex < b.txIndex
          \/ a.txIndex = b.txIndex /\ a.logIndex < b.logIndex

\* The stored logs that the filter's contractAddress, selector, fromBlock
\* and toBlock (exclusive) select.
MatchingLogIds(filter) ==
    { id \in StoredLogIds :
        /\ filter.fromBlock = Undefined \/ id.blockNumber >= ValueOf(filter.fromBlock)
        /\ filter.toBlock = Undefined \/ id.blockNumber < ValueOf(filter.toBlock)
        /\ \/ filter.contractAddress = Undefined
           \/ StoredLog(id).contractAddress = ValueOf(filter.contractAddress)
        /\ \/ filter.selector = Undefined
           \/ StoredLog(id).selector = ValueOf(filter.selector) }

\* The pages a caller gets who repeats the call, with afterLog set to the id
\* of the last log of the page before, for as long as maxLogsHit is true (and
\* for at most `calls` further calls).
RECURSIVE Pages(_, _, _)
Pages(filter, afterLog, calls) ==
    LET page == UnencryptedLogs([filter EXCEPT !.afterLog = afterLog])
    IN  IF page.threw \/ ~page.maxLogsHit \/ calls = 0
        THEN <<page>>
        ELSE <<page>> \o Pages(filter, Defined(page.logs[Len(page.logs)].id), calls - 1)

Pagination(filter) == Pages(filter, Undefined, Cardinality(StoredLogIds) + 1)

\* The logs of all pages, one after the other.
RECURSIVE AllLogs(_)
AllLogs(pages) ==
    IF pages = <<>> THEN <<>> ELSE pages[1].logs \o AllLogs(Tail(pages))

\* The filters a pagination starts with: no txHash, no afterLog.
PaginationFilters ==
    { filter \in FilterInputs : filter.txHash = Undefined /\ filter.afterLog = Undefined }

construct_SizesKept(q) ==
    /\ accumulator' = [accumulator EXCEPT ![q] = point_at_infinity]
    /\ raw_ops' = [raw_ops EXCEPT ![q] = <<>>]
    /\ ultra_ops' = [ultra_ops EXCEPT ![q] = EmptyColumns]
    /\ \E commitments \in CommitmentInputs :
          ultra_ops_commitments' = [ultra_ops_commitments EXCEPT ![q] = commitments]
    /\ UNCHANGED <<current_ultra_ops_size, previous_ultra_ops_size>>

\* ECCOpQueue q is replaced by a newly constructed one: empty vectors, both
\* sizes 0, the accumulator at infinity, the commitments whatever the memory
\* holds.
construct(q) ==
    /\ accumulator' = [accumulator EXCEPT ![q] = point_at_infinity]
    /\ raw_ops' = [raw_ops EXCEPT ![q] = <<>>]
    /\ ultra_ops' = [ultra_ops EXCEPT ![q] = EmptyColumns]
    /\ current_ultra_ops_size' = [current_ultra_ops_size EXCEPT ![q] = 0]
    /\ previous_ultra_ops_size' = [previous_ultra_ops_size EXCEPT ![q] = 0]
    /\ \E commitments \in CommitmentInputs :
          ultra_ops_commitments' = [ultra_ops_commitments EXCEPT ![q] = commitments]

OnlyChained == UNCHANGED <<finalized, merge, resized, populated, windowed, summed,
                         storeVars>>

\* A call that touches neither columns nor sizes.
ChainKept == UNCHANGED chain /\ OnlyChained

\* The record after a call outside the chain's steps that moved the columns
\* or sizes of the queues of S and left `built` as the built queues: the
\* chain is over when its last queue is one of S.
ChainAfter(S, built) ==
    IF chain.stage # "none" /\ chain.q \in S
    THEN NoChainWith(built)
    ELSE [chain EXCEPT !.built = built]

\* populate_ultra_ops on q: an append, q stays built.
ChainPopulate(q) == chain' = ChainAfter({q}, chain.built) /\ OnlyChained

ChainConstruct(q) == chain' = ChainAfter({q}, chain.built \cup {q}) /\ OnlyChained

ChainSwap(lhs, rhs) ==
    chain' = ChainAfter({lhs, rhs}, chain.built \ {lhs, rhs}) /\ OnlyChained

\* The longest chain followed.
MaxChain == 3

\* q is built and previous is the chain's last queue, finalized.
ChainGoesOn(q, previous) ==
    chain.stage = "finalized" /\ chain.q = previous /\ q \in chain.built

\* prepend_previous_queue(previous) on q: q is the chain's next queue when
\* the chain goes on with it.
ChainPrepend(q, previous) ==
    /\ ChainGoesOn(q, previous) => chain.n < MaxChain
    /\ chain' = IF ChainGoesOn(q, previous)
                THEN Chain("prepended", q, chain.n + 1, chain.built \ {q},
                           get_current_size(previous),
                           get_aggregate_transcript(previous),
                           [i \in Columns |-> chain.originals[i] \o ultra_ops[q][i]])
                ELSE ChainAfter({q}, chain.built \ {q})
    /\ OnlyChained

\* set_size_data() on q: the chain's last queue is finalized; or a built
\* queue is finalized with nothing prepended, the first of a new chain.
ChainFinalize(q) ==
    /\ chain' = IF chain.stage = "prepended" /\ chain.q = q
                THEN [chain EXCEPT !.stage = "finalized"]
                ELSE IF q \in chain.built
                     THEN Chain("finalized", q, 1, chain.built \ {q}, 0,
                                EmptyColumns, ultra_ops[q])
                     ELSE ChainAfter({q}, chain.built)
    /\ OnlyChained

NextChain ==
    \/ \E q \in Queues : construct(q) /\ ChainConstruct(q)
    \/ \E q \in Queues : empty_row(q) /\ ChainKept
    \/ \E q \in Queues : append_nonzero_ops(q) /\ ChainKept
    \/ \E q \in Queues, tuple \in UltraOpInputs :
          populate_ultra_ops(q, tuple) /\ ChainPopulate(q)
    \/ \E q \in Queues : set_size_data(q) /\ ChainFinalize(q)
    \/ \E q \in Queues, commitments \in CommitmentInputs :
          set_commitment_data(q, commitments) /\ ChainKept
    \/ \E q \in Queues, previous \in Queues :
          prepend_previous_queue(q, previous) /\ ChainPrepend(q, previous)
    \/ \E lhs \in Queues, rhs \in Queues : swap(lhs, rhs) /\ ChainSwap(lhs, rhs)

SpecChain == Init /\ [][NextChain]_vars

\* C31: for queues Q1..Qn where each Qi (i > 1) is built, then prepended
\* with the already finalized Q(i-1) (no populate_ultra_ops on Q(i-1) after
\* its finalize), then finalized with set_size_data, Qi.get_previous_size()
\* equals Q(i-1).get_current_size(), Qi's previous aggregate transcript
\* equals Q(i-1)'s full aggregate transcript, and Qi's full transcript is the
\* concatenation of the original transcripts of Q1, ..., Qi in that order.
ChainedStitching ==
    chain.stage = "finalized" =>
        /\ get_aggregate_transcript(chain.q) = chain.originals
        /\ get_current_size(chain.q) = Len(chain.originals[0])
        /\ chain.n > 1 =>
              /\ get_previous_size(chain.q) = chain.size
              /\ get_previous_aggregate_transcript(chain.q) = chain.previous

\* The third queue of a chain has been finalized: two wire operations in
\* all, one of them its own, one in the transcript of its predecessor.
ChainedStitchingWitness ==
    /\ chain.stage = "finalized"
    /\ chain.n = 3
    /\ Len(chain.originals[0]) = 4
    /\ Len(chain.previous[0]) = 2
    /\ chain.size = 2

====
